---- MODULE Spec2Model ----
(***************************************************************************)
(* Model of the transcription pipeline's compute acquisition (the `check`  *)
(* and `launch` actions of the instance manager) and of the status         *)
(* monitor, together with the cloud state they read and change: tagged     *)
(* instances, spot requests, the job record and the storage markers.       *)
(***************************************************************************)
EXTENDS Integers, Sequences, FiniteSets, TLC

(***************************************************************************)
(* Bounds of the model.                                                    *)
(***************************************************************************)
\* candidates (region, subnet) the cloud offers in total
MaxCands == 2
\* poll rounds of one spot wait (maxWaitTime / pollInterval rounds in the code)
MaxPolls == 2

(***************************************************************************)
(* Program constants.                                                      *)
(***************************************************************************)
REGIONS == <<"us-east-1", "us-west-2", "ap-southeast-2">>
RegionIdx == 1..Len(REGIONS)

\* values of the AMI_ID_* environment variables
AmiIds == {"undefined", "ami-placeholder", "ami-0abc"}
\* states of a spot request after which it is never fulfilled
TerminalSpotStates == {"cancelled", "failed", "closed"}
\* instance states the instance filter / the liveness test accept
LiveStates == {"running", "pending"}

Invs == {"A", "B"}
JobId == "job-1"
NoId == "undefined"
EventIds == {JobId, NoId}
EventActions == {"check", "launch", "other"}

NoInstance == <<"none", 0, "">>
NoInfo == [instanceId |-> NoInstance, region |-> "", type |-> "",
           availabilityZone |-> "", error |-> "", timestamp |-> -1]
NoCheck == [hasRunning |-> FALSE, region |-> "", instances |-> {}]
NoLookups == [region |-> 0, securityGroupId |-> "", subnets |-> <<>>]

\* availability zones of the default subnets of a region
AvailabilityZones == {"a", "b"}
\* what DescribeSubnets can return: the zones' subnets in any order
SubnetLists ==
  UNION {{s \in [1..n -> AvailabilityZones] : \A a, b \in 1..n : a # b => s[a] # s[b]}
         : n \in 0..Cardinality(AvailabilityZones)}

VARIABLES
  catalog,       \* REGIONS' amiId and the region's default subnets in the cloud
  instances,     \* EC2 instances: id -> [region, state, project, type]
  spotRequests,  \* spot requests: <<inv, cand>> -> [State, InstanceId]
  jobRecord,     \* the DynamoDB item of JobId
  pc,            \* where each invocation of the instance manager stands
  event,         \* the event of each invocation
  regionIdx,     \* loop index over REGIONS (probe, phase 1)
  instanceCheck, \* result of checkForRunningInstances
  spotAttempts, onDemandAttempts,
  attemptIdx,    \* loop index over spotAttempts / onDemandAttempts
  spotInstanceRequestId,
  polls,         \* rounds the current waitForSpotInstance has slept
  lastError,
  outcome,       \* what the invocation returned or threw
  calls,         \* acquisition calls each invocation sent, in order
  spotResults,   \* how the spot attempt for each candidate tried so far ended
  wrote,         \* statuses each invocation wrote to the job record
  liveSince,     \* tagged instances live since the invocation began, no query failed
  regionLookups, \* what the lookups of the region planned last answered
  s3Keys,        \* the keys of the job's objects present in the bucket
  now,           \* the clock of the episode, in minutes since the job's start
  monitor,       \* the last invocation of the status monitor and its result
  polled         \* the event and the failing calls of a single poll

cloudVars == <<catalog, instances, spotRequests, jobRecord>>
invVars == <<pc, event, regionIdx, instanceCheck, spotAttempts, onDemandAttempts,
             attemptIdx, spotInstanceRequestId, polls, lastError, outcome, calls,
             spotResults, wrote, liveSince, regionLookups>>
recVars == <<s3Keys, now, monitor, polled>>
vars == <<cloudVars, invVars, recVars>>

(***************************************************************************)
(* Helpers.                                                                *)
(***************************************************************************)
NoError == [message |-> "", cand |-> 0]
LaunchFailed == [message |-> "Failed to launch instance in all regions and types", cand |-> 0]
NotFulfilled(k) == [message |-> "Spot instance request was not fulfilled in time.", cand |-> k]
ApiError(op, k) == [message |-> op, cand |-> k]

NoOutcome == [kind |-> "none", skipped |-> FALSE, check |-> NoCheck,
              info |-> NoInfo, id |-> NoId, error |-> NoError]

\* `!region.amiId || region.amiId === 'ami-placeholder'`
AmiNotConfigured(ami) == ami = "undefined" \/ ami = "ami-placeholder"

\* faulty variant: only booted instances count as running
RunningInstancesBooted(r) ==
  {id \in DOMAIN instances :
     /\ instances[id].region = REGIONS[r]
     /\ instances[id].project
     /\ instances[id].state = "running"}

\* faulty variant: an instance already reported to a caller is left out
RunningInstancesUnreported(r) ==
  {id \in DOMAIN instances :
     /\ instances[id].region = REGIONS[r]
     /\ instances[id].project
     /\ instances[id].state \in LiveStates
     /\ \A j \in Invs : id \notin outcome[j].check.instances}

\* the DescribeInstances filter of checkForRunningInstances
RunningInstances(r) ==
  {id \in DOMAIN instances :
     /\ instances[id].region = REGIONS[r]
     /\ instances[id].project
     /\ instances[id].state \in LiveStates}

\* faulty variant: the subnets pushed last to first
RegionAttemptsReversed(r, subnets) ==
  [n \in 1..Len(subnets) |->
     [region |-> REGIONS[r], subnet |-> subnets[Len(subnets) + 1 - n]]]

\* one object per subnet, pushed in subnet order
RegionAttempts(r, subnets) ==
  [n \in 1..Len(subnets) |-> [region |-> REGIONS[r], subnet |-> subnets[n]]]

\* faulty variant: the on-demand loop gives up after its first failure
OnDemandLoopStops(i, k) ==
  IF k = 1 /\ k <= Len(onDemandAttempts[i])
    THEN [pc |-> "onDemand", idx |-> k]
    ELSE [pc |-> "catch", idx |-> k]

\* where launchInstance stands when its on-demand loop reaches candidate k
OnDemandLoop(i, k) ==
  IF k <= Len(onDemandAttempts[i])
    THEN [pc |-> "onDemand", idx |-> k]
    ELSE [pc |-> "catch", idx |-> k]

\* faulty variant: a failed spot attempt falls back to on-demand at once
SpotLoopFallsBack(i, k) ==
  IF k = 1 /\ k <= Len(spotAttempts[i])
    THEN [pc |-> "spotRequest", idx |-> k]
    ELSE OnDemandLoop(i, 1)

\* where launchInstance stands when its spot loop reaches candidate k
SpotLoop(i, k) ==
  IF k <= Len(spotAttempts[i])
    THEN [pc |-> "spotRequest", idx |-> k]
    ELSE OnDemandLoop(i, 1)

\* faulty variant: lastError is thrown as it is, also when no attempt set it
ThrownUnset(err) == err

\* `throw lastError || new Error(...)`
Thrown(err) == IF err = NoError THEN LaunchFailed ELSE err

\* faulty variant: the instanceInfo argument is dropped
UpdateItemStatusOnly(status, info) ==
  [jobRecord EXCEPT !.status = status, !.lastUpdated = now]

\* SET #status, #updated [, #instance] on the item of JobId
UpdateItem(status, info) ==
  [jobRecord EXCEPT !.status = status,
                    !.lastUpdated = now,
                    !.instanceInfo = IF info = NoInfo THEN @ ELSE info]

\* faulty variant: the error is written without its timestamp
ErrorInfoUndated(err) == [NoInfo EXCEPT !.error = err.message]

\* `{ error: error.message, timestamp: new Date().toISOString() }`
ErrorInfo(err) == [NoInfo EXCEPT !.error = err.message, !.timestamp = now]

\* the requests the model keeps: those an invocation still awaits and those EC2
\* can still fulfil; a request in a final state that nobody polls or cancels
\* any more is never read again
Kept(requests, awaited) ==
  [id \in {x \in DOMAIN requests : x \in awaited \/ requests[x].State = "open"}
     |-> requests[id]]

\* the request ids invocations other than i are polling, tagging or cancelling
AwaitedByOthers(i) ==
  {spotInstanceRequestId[j] : j \in {x \in Invs : x # i /\ pc[x] \in {"wait", "tag", "spotCatch"}}}

AwaitedByAll ==
  {spotInstanceRequestId[j] : j \in {x \in Invs : pc[x] \in {"wait", "tag", "spotCatch"}}}

Log(i, op, k) == [calls EXCEPT ![i] = Append(@, [op |-> op, cand |-> k])]

(***************************************************************************)
(* Initial states.                                                         *)
(***************************************************************************)
\* a region without a configured image has no default VPC prepared either
RegionConfigs ==
  {c \in [amiId : AmiIds, subnets : SubnetLists] :
     AmiNotConfigured(c.amiId) => c.subnets = <<>>}

\* functions are compared as sequences over REGIONS
RECURSIVE SumLen(_, _)
SumLen(c, r) == IF r = 0 THEN 0 ELSE Len(c[r].subnets) + SumLen(c, r - 1)

Catalogs == {c \in [RegionIdx -> RegionConfigs] : SumLen(c, Len(REGIONS)) <= MaxCands}

InstanceStates == {"pending", "running", "stopped", "terminated"}

PreId(r) == <<"pre", r, "on-demand">>
\* instances that exist before the invocations start: at most one per region,
\* in any state, of this project (tagged) or not
EarlierInstances ==
  UNION {{[id \in {PreId(r) : r \in S} |->
             [region |-> REGIONS[id[2]], state |-> g[id[2]][1], project |-> g[id[2]][2],
              type |-> "on-demand"]]
          : g \in [S -> InstanceStates \X BOOLEAN]}
         : S \in SUBSET RegionIdx}

\* one catalog for the runs in which the catalog plays no part
OneCandidate ==
  [r \in RegionIdx |->
     IF r = 1 THEN [amiId |-> "ami-0abc", subnets |-> <<"a">>]
     ELSE IF r = 2 THEN [amiId |-> "ami-placeholder", subnets |-> <<>>]
     ELSE [amiId |-> "undefined", subnets |-> <<>>]]

InitInv ==
  /\ pc = [i \in Invs |-> "idle"]
  /\ event = [i \in Invs |-> [action |-> "check", id |-> NoId]]
  /\ regionIdx = [i \in Invs |-> 1]
  /\ instanceCheck = [i \in Invs |-> NoCheck]
  /\ spotAttempts = [i \in Invs |-> <<>>]
  /\ onDemandAttempts = [i \in Invs |-> <<>>]
  /\ attemptIdx = [i \in Invs |-> 1]
  /\ spotInstanceRequestId = [i \in Invs |-> <<>>]
  /\ polls = [i \in Invs |-> 0]
  /\ lastError = [i \in Invs |-> NoError]
  /\ outcome = [i \in Invs |-> NoOutcome]
  /\ calls = [i \in Invs |-> <<>>]
  /\ spotResults = [i \in Invs |-> <<>>]
  /\ wrote = [i \in Invs |-> <<>>]
  /\ liveSince = [i \in Invs |-> {}]
  /\ regionLookups = [i \in Invs |-> NoLookups]

\* the item the admission step created for the job
NewRecord == [status |-> "validating", instanceInfo |-> NoInfo,
              timestamp |-> 0, lastUpdated |-> 0,
              outputKey |-> "", transcriptKey |-> "", processingTimeMinutes |-> -1,
              elapsedMinutes |-> -1, error |-> ""]

InitRecord == jobRecord = NewRecord

\* the result object of the status monitor
NoStatus == [isComplete |-> FALSE, isFailed |-> FALSE, elapsedMinutes |-> 0,
             instanceRunning |-> FALSE, outputsFound |-> FALSE, inputMoved |-> FALSE,
             error |-> ""]

NoMonitor == [kind |-> "none", outputCheck |-> [found |-> FALSE, error |-> FALSE],
              result |-> NoStatus, wrote |-> <<>>, writeFailed |-> FALSE]

NoPoll == [id |-> NoId, instanceId |-> NoInstance, failing |-> {}]

\* no object of the job is in the bucket yet, the status monitor has not run
InitMonitor ==
  /\ s3Keys = {}
  /\ now = 0
  /\ monitor = NoMonitor
  /\ polled = NoPoll

Init ==
  /\ catalog \in Catalogs
  /\ instances = <<>>
  /\ spotRequests = <<>>
  /\ InitRecord
  /\ InitInv
  /\ InitMonitor

(***************************************************************************)
(* The instance manager: exports.handler, one action per awaited call.     *)
(***************************************************************************)
\* the job family's instances that are running or pending, in any region
TaggedLive ==
  {id \in DOMAIN instances : instances[id].project /\ instances[id].state \in LiveStates}

\* the handler is invoked with an event
Start(i) ==
  /\ pc[i] = "idle"
  /\ \E a \in EventActions, id \in EventIds :
       /\ event' = [event EXCEPT ![i] = [action |-> a, id |-> id]]
       /\ IF a = "other"
            THEN /\ pc' = [pc EXCEPT ![i] = "catch"]
                 /\ outcome' = [outcome EXCEPT ![i].error = ApiError("Unknown action", 0)]
            ELSE /\ pc' = [pc EXCEPT ![i] = "probe"]
                 /\ UNCHANGED outcome
  /\ UNCHANGED <<cloudVars, regionIdx, instanceCheck, spotAttempts, onDemandAttempts,
                 attemptIdx, spotInstanceRequestId, polls, lastError, calls, spotResults,
                 wrote, regionLookups, recVars>>
  /\ liveSince' = [liveSince EXCEPT ![i] = TaggedLive]

\* faulty variant: a `check` that finds nothing goes on to launch
AfterCheckLaunches(action, check) ==
  IF check.hasRunning THEN [pc |-> "done", skipped |-> action = "launch"]
  ELSE [pc |-> "plan", skipped |-> FALSE]

\* faulty variant: `launch` ignores what the check found
AfterCheckNoSkip(action, check) ==
  IF action = "check" THEN [pc |-> "done", skipped |-> FALSE]
  ELSE [pc |-> "plan", skipped |-> FALSE]

\* what the handler does with the result of checkForRunningInstances:
\* `check` returns it, `launch` returns it with skipped or goes on to launch
AfterCheck(action, check) ==
  IF action = "check" THEN [pc |-> "done", skipped |-> FALSE]
  ELSE IF check.hasRunning THEN [pc |-> "done", skipped |-> TRUE]
  ELSE [pc |-> "plan", skipped |-> FALSE]

\* faulty variant: the instances of every region are merged into the result
CheckResultMerged(r, found) ==
  IF found # {}
    THEN [hasRunning |-> TRUE, region |-> REGIONS[r], instances |-> TaggedLive]
    ELSE NoCheck

\* what checkForRunningInstances makes of one region's answer: the return
\* value if the region has instances, nothing to return yet if it has none
CheckResult(r, found) ==
  IF found # {}
    THEN [hasRunning |-> TRUE, region |-> REGIONS[r], instances |-> found]
    ELSE NoCheck

\* faulty variant: the error of a region's query ends the scan
ScanStopsOnError(ok, found, r) == ok /\ found = {} /\ r < Len(REGIONS)

\* the loop of checkForRunningInstances goes to the next region when this one
\* gave no instance, its query answered or not (the catch only logs)
ScanGoesOn(ok, found, r) == found = {} /\ r < Len(REGIONS)

\* checkForRunningInstances: the DescribeInstances call of one region, and what
\* the handler does with the result once the scan ends
ProbeRegion(i) ==
  /\ pc[i] = "probe"
  /\ \E ok \in BOOLEAN :
       LET r == regionIdx[i]
           found == IF ok THEN RunningInstances(r) ELSE {}
           since == IF ok THEN liveSince[i] ELSE {}
           result == CheckResult(r, found)
           next == AfterCheck(event[i].action, result)
       IN /\ liveSince' = [liveSince EXCEPT ![i] = since]
          /\ IF ScanGoesOn(ok, found, r)
            THEN /\ regionIdx' = [regionIdx EXCEPT ![i] = r + 1]
                 /\ UNCHANGED <<instanceCheck, pc, outcome>>
            ELSE /\ instanceCheck' = [instanceCheck EXCEPT ![i] = result]
                 /\ regionIdx' = [regionIdx EXCEPT ![i] = 1]
                 /\ pc' = [pc EXCEPT ![i] = next.pc]
                 /\ outcome' = IF next.pc = "done"
                                 THEN [outcome EXCEPT ![i] =
                                        [@ EXCEPT !.kind = "returned", !.check = result,
                                                  !.skipped = next.skipped]]
                                 ELSE outcome
  /\ UNCHANGED <<cloudVars, event, spotAttempts, onDemandAttempts, attemptIdx,
                 spotInstanceRequestId, polls, lastError, calls, spotResults, wrote,
                 regionLookups, recVars>>

\* faulty variant: a region without its security group is planned all the same
SkipRegionUnlessGroup(amiId, securityGroupId, subnets) ==
  AmiNotConfigured(amiId) \/ Len(subnets) = 0

\* the three `continue` statements of phase 1
SkipRegion(amiId, securityGroupId, subnets) ==
  \/ AmiNotConfigured(amiId)
  \/ securityGroupId = "null"
  \/ Len(subnets) = 0

\* launchInstance phase 1, one region: the AMI test, getSecurityGroupId and
\* getDefaultSubnets (null and [] also stand for a failed lookup)
PlanRegion(i) ==
  /\ pc[i] = "plan"
  /\ \E securityGroupId \in {"null", "sg-1"}, subnetsOk \in BOOLEAN :
       LET r == regionIdx[i]
           subnets == IF subnetsOk THEN catalog[r].subnets ELSE <<>>
           skip == SkipRegion(catalog[r].amiId, securityGroupId, subnets)
           asked == ~AmiNotConfigured(catalog[r].amiId)
           spots == IF skip THEN spotAttempts[i]
                            ELSE spotAttempts[i] \o RegionAttempts(r, subnets)
           onDemands == IF skip THEN onDemandAttempts[i]
                                ELSE onDemandAttempts[i] \o RegionAttempts(r, subnets)
       IN /\ regionLookups' = [regionLookups EXCEPT ![i] =
               [region |-> r,
                securityGroupId |-> IF asked THEN securityGroupId ELSE "",
                subnets |-> IF asked /\ securityGroupId # "null" THEN subnets ELSE <<>>]]
          /\ spotAttempts' = [spotAttempts EXCEPT ![i] = spots]
          /\ onDemandAttempts' = [onDemandAttempts EXCEPT ![i] = onDemands]
          /\ IF r < Len(REGIONS)
               THEN /\ regionIdx' = [regionIdx EXCEPT ![i] = r + 1]
                    /\ UNCHANGED <<pc, attemptIdx, outcome>>
               ELSE LET next == IF Len(spots) > 0 THEN [pc |-> "spotRequest", idx |-> 1]
                                ELSE IF Len(onDemands) > 0 THEN [pc |-> "onDemand", idx |-> 1]
                                ELSE [pc |-> "catch", idx |-> 1]
                    IN /\ pc' = [pc EXCEPT ![i] = next.pc]
                       /\ attemptIdx' = [attemptIdx EXCEPT ![i] = next.idx]
                       /\ outcome' = IF next.pc = "catch"
                                       THEN [outcome EXCEPT ![i].error = Thrown(lastError[i])]
                                       ELSE outcome
                       /\ UNCHANGED regionIdx
  /\ UNCHANGED <<cloudVars, event, instanceCheck, spotInstanceRequestId, polls,
                 lastError, calls, spotResults, wrote, liveSince, recVars>>

\* what the handler does after launchInstance leaves the loops at position `next`
Continue(i, next, err) ==
  /\ pc' = [pc EXCEPT ![i] = next.pc]
  /\ attemptIdx' = [attemptIdx EXCEPT ![i] = next.idx]
  /\ outcome' = IF next.pc = "catch"
                  THEN [outcome EXCEPT ![i].error = Thrown(err)]
                  ELSE outcome

\* launchInstance returns the acquisition result to the handler
Acquired(i, instanceId, type) ==
  LET attempt == spotAttempts[i][attemptIdx[i]]
  IN [NoInfo EXCEPT !.instanceId = instanceId, !.region = attempt.region,
                    !.type = type, !.availabilityZone = attempt.subnet]

\* phase 2: RequestSpotInstances for the current candidate
SpotRequest(i) ==
  /\ pc[i] = "spotRequest"
  /\ LET k == attemptIdx[i] IN
     /\ calls' = Log(i, "RequestSpotInstances", k)
     /\ \E ok \in BOOLEAN :
          IF ok
            THEN /\ spotRequests' = spotRequests @@
                      (<<i, k>> :> [State |-> "open", InstanceId |-> NoInstance])
                 /\ spotInstanceRequestId' = [spotInstanceRequestId EXCEPT ![i] = <<i, k>>]
                 /\ polls' = [polls EXCEPT ![i] = 0]
                 /\ pc' = [pc EXCEPT ![i] = "wait"]
                 /\ UNCHANGED <<lastError, spotResults>>
            ELSE /\ lastError' = [lastError EXCEPT ![i] = ApiError("RequestSpotInstances", k)]
                 /\ spotInstanceRequestId' = [spotInstanceRequestId EXCEPT ![i] = <<>>]
                 /\ pc' = [pc EXCEPT ![i] = "spotCatch"]
                 /\ spotResults' = [spotResults EXCEPT ![i] = Append(@, "rejected")]
                 /\ UNCHANGED <<spotRequests, polls>>
  /\ UNCHANGED <<catalog, instances, jobRecord, event, regionIdx, instanceCheck,
                 spotAttempts, onDemandAttempts, attemptIdx, outcome, wrote, liveSince,
                 regionLookups, recVars>>

\* faulty variant: the wait has no time limit
WaitExpiredNever(rounds) == FALSE

\* `Date.now() - startTime < maxWaitTime` fails after MaxPolls rounds of sleep
WaitExpired(rounds) == rounds >= MaxPolls

\* faulty variant: a request that is still open counts as fulfilled
FulfilledOrOpen(request) == request.State \in {"open", "active"}

\* `request.State === 'active' && request.InstanceId`
Fulfilled(request) == request.State = "active" /\ request.InstanceId # NoInstance

\* faulty variant: a terminal state is polled like an open one
UnfulfillableNever(request) == FALSE

\* `['cancelled', 'failed', 'closed'].includes(request.State)`
Unfulfillable(request) == request.State \in TerminalSpotStates

\* waitForSpotInstance: one round of the polling loop, or its timeout
WaitForSpotInstance(i) ==
  /\ pc[i] = "wait"
  /\ LET k == attemptIdx[i]
         request == spotRequests[spotInstanceRequestId[i]]
         failed(how, err) ==
           /\ lastError' = [lastError EXCEPT ![i] = err]
           /\ spotResults' = [spotResults EXCEPT ![i] = Append(@, how)]
           /\ pc' = [pc EXCEPT ![i] = "spotCatch"]
           /\ UNCHANGED polls
     IN IF WaitExpired(polls[i])
          THEN \* the loop condition fails: null, "not fulfilled in time"
               failed("timeout", NotFulfilled(k))
          ELSE \E ok \in BOOLEAN :
               IF ~ok
                 THEN failed("error", ApiError("DescribeSpotInstanceRequests", k))
                 ELSE IF Fulfilled(request)
                   THEN /\ pc' = [pc EXCEPT ![i] = "tag"]
                        /\ UNCHANGED <<lastError, polls, spotResults>>
                   ELSE IF Unfulfillable(request)
                     THEN failed("terminal", NotFulfilled(k))
                     ELSE /\ polls' = [polls EXCEPT ![i] = @ + 1]
                          /\ UNCHANGED <<lastError, pc, spotResults>>
  /\ UNCHANGED <<cloudVars, event, regionIdx, instanceCheck, spotAttempts,
                 onDemandAttempts, attemptIdx, spotInstanceRequestId, outcome, calls, wrote,
                 liveSince, regionLookups, recVars>>

\* CreateTags on the fulfilled spot instance, then launchInstance returns
TagInstance(i) ==
  /\ pc[i] = "tag"
  /\ LET k == attemptIdx[i]
         instanceId == spotRequests[spotInstanceRequestId[i]].InstanceId
     IN /\ calls' = Log(i, "CreateTags", k)
        /\ \E ok \in BOOLEAN :
             IF ok
               THEN /\ instances' = [instances EXCEPT ![instanceId].project = TRUE,
                                                      ![instanceId].type = "spot"]
                    /\ spotRequests' = Kept(spotRequests, AwaitedByOthers(i))
                    /\ outcome' = [outcome EXCEPT ![i].info = Acquired(i, instanceId, "spot")]
                    /\ pc' = [pc EXCEPT ![i] = "update"]
                    /\ spotResults' = [spotResults EXCEPT ![i] = Append(@, "fulfilled")]
                    /\ UNCHANGED lastError
               ELSE /\ lastError' = [lastError EXCEPT ![i] = ApiError("CreateTags", k)]
                    /\ pc' = [pc EXCEPT ![i] = "spotCatch"]
                    /\ spotResults' = [spotResults EXCEPT ![i] = Append(@, "error")]
                    /\ UNCHANGED <<instances, spotRequests, outcome>>
  /\ UNCHANGED <<catalog, jobRecord, event, regionIdx, instanceCheck,
                 spotAttempts, onDemandAttempts, attemptIdx, spotInstanceRequestId,
                 polls, wrote, liveSince, regionLookups, recVars>>

\* faulty variant: the catch block forgets the request
HasRequestIdNever(id) == FALSE

\* `if (spotInstanceRequestId)` in the catch block of a spot attempt
HasRequestId(id) == id # <<>>

\* the catch block of a spot attempt: CancelSpotInstanceRequests when a request
\* id was obtained (a failure of the call is only logged), then the next candidate
SpotCatch(i) ==
  /\ pc[i] = "spotCatch"
  /\ LET k == attemptIdx[i]
         id == spotInstanceRequestId[i]
     IN /\ IF HasRequestId(id)
             THEN /\ calls' = Log(i, "CancelSpotInstanceRequests", k)
                  /\ \E ok \in BOOLEAN :
                       spotRequests' =
                         Kept(IF ok /\ spotRequests[id].State \in {"open", "active"}
                                THEN [spotRequests EXCEPT ![id].State = "cancelled"]
                                ELSE spotRequests,
                              AwaitedByOthers(i))
             ELSE UNCHANGED <<calls, spotRequests>>
        /\ spotInstanceRequestId' = [spotInstanceRequestId EXCEPT ![i] = <<>>]
        /\ Continue(i, SpotLoop(i, k + 1), lastError[i])
  /\ UNCHANGED <<catalog, instances, jobRecord, event, regionIdx, instanceCheck,
                 spotAttempts, onDemandAttempts, polls, lastError, spotResults, wrote,
                 liveSince, regionLookups, recVars>>

\* phase 3: RunInstances for the current candidate, tags in the same call
OnDemand(i) ==
  /\ pc[i] = "onDemand"
  /\ LET k == attemptIdx[i]
         attempt == onDemandAttempts[i][k]
         instanceId == <<i, k, "on-demand">>
     IN /\ calls' = Log(i, "RunInstances", k)
        /\ \E ok \in BOOLEAN :
             IF ok
               THEN /\ instances' = instances @@
                         (instanceId :> [region |-> attempt.region, state |-> "pending",
                                         project |-> TRUE, type |-> "on-demand"])
                    /\ outcome' = [outcome EXCEPT ![i].info =
                         [NoInfo EXCEPT !.instanceId = instanceId, !.region = attempt.region,
                                        !.type = "on-demand",
                                        !.availabilityZone = attempt.subnet]]
                    /\ pc' = [pc EXCEPT ![i] = "update"]
                    /\ UNCHANGED <<lastError, attemptIdx>>
               ELSE /\ lastError' = [lastError EXCEPT ![i] = ApiError("RunInstances", k)]
                    /\ Continue(i, OnDemandLoop(i, k + 1), ApiError("RunInstances", k))
                    /\ UNCHANGED instances
  /\ UNCHANGED <<catalog, spotRequests, jobRecord, event, regionIdx, instanceCheck,
                 spotAttempts, onDemandAttempts, spotInstanceRequestId, polls,
                 spotResults, wrote, liveSince, regionLookups, recVars>>

\* updateDynamoDBStatus(id, 'processing', instanceInfo), then the return
UpdateProcessing(i) ==
  /\ pc[i] = "update"
  /\ \E ok \in BOOLEAN :
       IF ok /\ event[i].id # NoId
         THEN /\ jobRecord' = UpdateItem("processing", outcome[i].info)
              /\ wrote' = [wrote EXCEPT ![i] = Append(@, "processing")]
              /\ pc' = [pc EXCEPT ![i] = "done"]
              /\ outcome' = [outcome EXCEPT ![i].kind = "returned", ![i].id = event[i].id]
         ELSE /\ pc' = [pc EXCEPT ![i] = "catch"]
              /\ outcome' = [outcome EXCEPT ![i].error = ApiError("UpdateCommand", 0)]
              /\ UNCHANGED <<jobRecord, wrote>>
  /\ UNCHANGED <<catalog, instances, spotRequests, event, regionIdx, instanceCheck,
                 spotAttempts, onDemandAttempts, attemptIdx, spotInstanceRequestId,
                 polls, lastError, calls, spotResults, liveSince, regionLookups, recVars>>

\* the handler's catch block: the error status, then the rethrow
Catch(i) ==
  /\ pc[i] = "catch"
  /\ pc' = [pc EXCEPT ![i] = "done"]
  /\ IF event[i].id # NoId
       THEN \E ok \in BOOLEAN :
            IF ok
              THEN /\ jobRecord' = UpdateItem("error", ErrorInfo(outcome[i].error))
                   /\ wrote' = [wrote EXCEPT ![i] = Append(@, "error")]
                   /\ outcome' = [outcome EXCEPT ![i].kind = "threw"]
              ELSE /\ outcome' = [outcome EXCEPT ![i].kind = "threw",
                                                 ![i].error = ApiError("UpdateCommand", 0)]
                   /\ UNCHANGED <<jobRecord, wrote>>
       ELSE /\ outcome' = [outcome EXCEPT ![i].kind = "threw"]
            /\ UNCHANGED <<jobRecord, wrote>>
  /\ UNCHANGED <<catalog, instances, spotRequests, event, regionIdx, instanceCheck,
                 spotAttempts, onDemandAttempts, attemptIdx, spotInstanceRequestId,
                 polls, lastError, calls, spotResults, liveSince, regionLookups, recVars>>

(***************************************************************************)
(* The cloud.                                                              *)
(***************************************************************************)
\* EC2 fulfils an open spot request: the request becomes active and its
\* instance starts, without tags
SpotFulfilled ==
  /\ \E id \in DOMAIN spotRequests :
       /\ spotRequests[id].State = "open"
       /\ LET instanceId == <<id[1], id[2], "spot">>
          IN /\ spotRequests' = Kept([spotRequests EXCEPT ![id] =
                                        [State |-> "active", InstanceId |-> instanceId]],
                                      AwaitedByAll)
             /\ instances' = instances @@
                  (instanceId :> [region |-> spotAttempts[id[1]][id[2]].region,
                                  state |-> "pending", project |-> FALSE, type |-> ""])
  /\ UNCHANGED <<catalog, jobRecord, invVars, recVars>>

\* an open spot request ends unfulfilled (no capacity, bad parameters, cancelled
\* from outside)
SpotClosed ==
  /\ \E id \in DOMAIN spotRequests, st \in TerminalSpotStates :
       /\ spotRequests[id].State = "open"
       /\ spotRequests' = Kept([spotRequests EXCEPT ![id].State = st], AwaitedByAll)
  /\ UNCHANGED <<catalog, instances, jobRecord, invVars, recVars>>

\* an instance boots, or ends (the job's shutdown, a spot interruption)
InstanceStateChange ==
  /\ \E id \in DOMAIN instances :
       \/ /\ instances[id].state = "pending"
          /\ instances' = [instances EXCEPT ![id].state = "running"]
          /\ UNCHANGED liveSince
       \/ /\ instances[id].state \in LiveStates
          /\ instances' = [instances EXCEPT ![id].state = "terminated"]
          /\ liveSince' = [i \in Invs |-> liveSince[i] \ {id}]
  /\ UNCHANGED <<catalog, spotRequests, jobRecord, pc, event, regionIdx, instanceCheck,
                 spotAttempts, onDemandAttempts, attemptIdx, spotInstanceRequestId,
                 polls, lastError, outcome, calls, spotResults, wrote, regionLookups,
                 recVars>>

Cloud == SpotFulfilled \/ SpotClosed \/ InstanceStateChange

Launch(i) ==
  \/ Start(i) \/ ProbeRegion(i) \/ PlanRegion(i) \/ SpotRequest(i)
  \/ WaitForSpotInstance(i) \/ TagInstance(i) \/ SpotCatch(i) \/ OnDemand(i)
  \/ UpdateProcessing(i) \/ Catch(i)

Next == Launch("A") \/ SpotFulfilled \/ SpotClosed

Spec == Init /\ [][Next]_vars

\* the runtime runs an invocation's awaited calls and timers to their end; the
\* cloud owes nothing
SpecLive == Spec /\ WF_vars(Launch("A"))

\* one invocation in a cloud that already holds instances
InitProbe ==
  /\ catalog = OneCandidate
  /\ instances \in EarlierInstances
  /\ spotRequests = <<>>
  /\ InitRecord
  /\ InitInv
  /\ InitMonitor

NextProbe == Launch("A") \/ Cloud

SpecProbe == InitProbe /\ [][NextProbe]_vars

\* the `check` action, the second one once the first has returned
Check(i) ==
  /\ i = "B" => pc["A"] = "done"
  /\ Start(i)
  /\ event'[i].action = "check"

\* two `check` invocations one after the other, the cloud left alone
NextCheck == \E i \in Invs : Check(i) \/ ProbeRegion(i)

SpecCheck == InitProbe /\ [][NextCheck]_vars

\* two overlapping invocations for the same job
InitRace ==
  /\ catalog = OneCandidate
  /\ instances = <<>>
  /\ spotRequests = <<>>
  /\ InitRecord
  /\ InitInv
  /\ InitMonitor

NextRace == (\E i \in Invs : Launch(i)) \/ Cloud

SpecRace == InitRace /\ [][NextRace]_vars

(***************************************************************************)
(* The status monitor (src/handlers/statusMonitor.js): one invocation is    *)
(* one action; each of its calls can fail.                                 *)
(***************************************************************************)
\* the minutes of the job in which the monitor is polled
MaxMinutes == 1
\* calls that fail in one invocation of the monitor
MaxFaults == 1

\* the objects of the job: outputs/<base>_transcript.json and .txt, the input
\* under raw/done/ and under error/
JsonFileKey == "outputs/job_transcript.json"
TxtFileKey == "outputs/job_transcript.txt"
DoneKey == "raw/done/job.mp3"
ErrorKey == "error/job.mp3"
JobKeys == {JsonFileKey, TxtFileKey, DoneKey, ErrorKey}

\* the calls of one invocation that can fail (a HeadObject fails with an error
\* other than NotFound)
MonitorCalls == {"GetCommand", "HeadJson", "HeadTxt", "HeadDone", "DescribeInstances",
                 "HeadError", "UpdateCommand", "CatchUpdateCommand"}

\* faulty variant: the JSON transcript alone counts as the output
CheckOutputFilesJsonOnly(faults) ==
  IF faults["HeadJson"] THEN [found |-> FALSE, error |-> TRUE]
  ELSE IF JsonFileKey \notin s3Keys THEN [found |-> FALSE, error |-> FALSE]
  ELSE [found |-> TRUE, error |-> FALSE]

\* checkOutputFiles: both HeadObject calls in one try block
CheckOutputFiles(faults) ==
  IF faults["HeadJson"] THEN [found |-> FALSE, error |-> TRUE]
  ELSE IF JsonFileKey \notin s3Keys THEN [found |-> FALSE, error |-> FALSE]
  ELSE IF faults["HeadTxt"] THEN [found |-> FALSE, error |-> TRUE]
  ELSE IF TxtFileKey \notin s3Keys THEN [found |-> FALSE, error |-> FALSE]
  ELSE [found |-> TRUE, error |-> FALSE]

\* checkInputFileMoved: true, false, or the error thrown on
CheckInputFileMoved(faults) ==
  IF faults["HeadDone"] THEN "throw"
  ELSE IF DoneKey \in s3Keys THEN "true" ELSE "false"

\* checkInstanceStatus: DescribeInstances by id in the region of the record
CheckInstanceStatus(instanceId, region, faults) ==
  IF instanceId = NoInstance \/ region = "" THEN [running |-> FALSE]
  ELSE IF faults["DescribeInstances"] \/ instances[instanceId].region # region
    THEN [running |-> FALSE]
    ELSE [running |-> instances[instanceId].state \in LiveStates]

\* faulty variant: only the entries of updates are set
UpdateStatusUndated(updates) ==
  [f \in DOMAIN jobRecord |-> IF f \in DOMAIN updates THEN updates[f] ELSE jobRecord[f]]

\* updateDynamoDBStatus(id, updates): SET lastUpdated and every entry of updates
UpdateStatus(updates) ==
  [f \in DOMAIN jobRecord |->
     IF f \in DOMAIN updates THEN updates[f]
     ELSE IF f = "lastUpdated" THEN now
     ELSE jobRecord[f]]

\* faulty variant: the catch block marks the status object of the try block,
\* which the completed branch had already marked complete
MonitorCatchKeepsFlags(id, message, faults, outputCheck) ==
  IF id # NoId /\ ~faults["CatchUpdateCommand"]
    THEN [record |-> UpdateStatus([status |-> "monitoring_error", error |-> message]),
          monitor |-> [kind |-> "returned", outputCheck |-> outputCheck,
                       result |-> [NoStatus EXCEPT !.isComplete = outputCheck.found,
                                                   !.isFailed = TRUE, !.error = message],
                       wrote |-> <<"monitoring_error">>, writeFailed |-> message = "UpdateCommand"]]
    ELSE [record |-> jobRecord,
          monitor |-> [kind |-> "threw", outputCheck |-> outputCheck, result |-> NoStatus,
                       wrote |-> <<>>, writeFailed |-> TRUE]]

\* the catch block of the handler: the monitoring_error write, then the result
MonitorCatch(id, message, faults, outputCheck) ==
  IF id # NoId /\ ~faults["CatchUpdateCommand"]
    THEN [record |-> UpdateStatus([status |-> "monitoring_error", error |-> message]),
          monitor |-> [kind |-> "returned", outputCheck |-> outputCheck,
                       result |-> [NoStatus EXCEPT !.isFailed = TRUE, !.error = message],
                       wrote |-> <<"monitoring_error">>, writeFailed |-> message = "UpdateCommand"]]
    ELSE [record |-> jobRecord,
          monitor |-> [kind |-> "threw", outputCheck |-> outputCheck, result |-> NoStatus,
                       wrote |-> <<>>, writeFailed |-> TRUE]]

\* exports.handler of the status monitor, from the event to its result
MonitorHandler(id, instanceId, faults) ==
  LET hasItem == id # NoId /\ ~faults["GetCommand"]
      elapsedMinutes == IF hasItem THEN now - jobRecord.timestamp ELSE 0
      outputCheck == CheckOutputFiles(faults)
      inputMoved == CheckInputFileMoved(faults)
      instanceStatus ==
        IF hasItem THEN CheckInstanceStatus(instanceId, jobRecord.instanceInfo.region, faults)
        ELSE [running |-> FALSE]
      status == [NoStatus EXCEPT !.elapsedMinutes = elapsedMinutes,
                                 !.instanceRunning = instanceStatus.running,
                                 !.outputsFound = outputCheck.found,
                                 !.inputMoved = (inputMoved = "true")]
      updated == id # NoId /\ ~faults["UpdateCommand"]
      returned(record, result, written) ==
        [record |-> record,
         monitor |-> [kind |-> "returned", outputCheck |-> outputCheck, result |-> result,
                      wrote |-> written, writeFailed |-> FALSE]]
  IN IF inputMoved = "throw"
       THEN MonitorCatch(id, "HeadObject", faults, outputCheck)
     ELSE IF outputCheck.found
       THEN IF updated
              THEN returned(UpdateStatus([status |-> "completed", outputKey |-> JsonFileKey,
                                          transcriptKey |-> TxtFileKey,
                                          processingTimeMinutes |-> elapsedMinutes]),
                            [status EXCEPT !.isComplete = TRUE], <<"completed">>)
              ELSE MonitorCatch(id, "UpdateCommand", faults, outputCheck)
     ELSE IF instanceStatus.running
       THEN IF updated
              THEN returned(UpdateStatus([status |-> "processing",
                                          elapsedMinutes |-> elapsedMinutes]),
                            status, <<"processing">>)
              ELSE MonitorCatch(id, "UpdateCommand", faults, outputCheck)
     ELSE IF ~faults["HeadError"] /\ ErrorKey \in s3Keys
       THEN LET failed == [status EXCEPT !.isFailed = TRUE,
                                         !.error = "File moved to error folder"]
            IN IF updated
                 THEN returned(UpdateStatus([status |-> "failed",
                                 error |-> "Processing failed - file in error folder"]),
                               failed, <<"failed">>)
                 \* the inner catch takes the error of the write: still waiting
                 ELSE [record |-> jobRecord,
                       monitor |-> [kind |-> "returned", outputCheck |-> outputCheck,
                                    result |-> failed, wrote |-> <<>>,
                                    writeFailed |-> TRUE]]
     ELSE returned(jobRecord, status, <<>>)

\* the calls that fail in one invocation
FaultSets == {f \in SUBSET MonitorCalls : Cardinality(f) <= MaxFaults}

\* one invocation of the status monitor by the poller
Monitor ==
  /\ \E id \in EventIds, instanceId \in {NoInstance} \cup DOMAIN instances,
        failing \in FaultSets :
       LET faults == [c \in MonitorCalls |-> c \in failing]
           end == MonitorHandler(id, instanceId, faults)
       IN /\ jobRecord' = end.record
          /\ monitor' = end.monitor
  /\ UNCHANGED <<catalog, instances, spotRequests, invVars, s3Keys, now, polled>>

\* the job's script uploads an output or moves the input; an object is deleted
StorageChange ==
  /\ \E key \in JobKeys :
       s3Keys' = IF key \in s3Keys THEN s3Keys \ {key} ELSE s3Keys \cup {key}
  /\ UNCHANGED <<cloudVars, invVars, now, monitor, polled>>

\* the job's instance, in any state, and the record the launch left
JobInstances ==
  {<<>>} \cup
  {(PreId(1) :> [region |-> REGIONS[1], state |-> st, project |-> TRUE,
                 type |-> "on-demand"]) : st \in InstanceStates}

LaunchedRecord ==
  [NewRecord EXCEPT !.status = "processing",
                    !.instanceInfo = [NoInfo EXCEPT !.instanceId = PreId(1),
                                                    !.region = REGIONS[1],
                                                    !.type = "on-demand",
                                                    !.availabilityZone = "a"]]

\* the poller runs the monitor on a job after its launch step, in any minute
\* of the job
InitRec ==
  /\ catalog = OneCandidate
  /\ instances \in JobInstances
  /\ spotRequests = <<>>
  /\ jobRecord \in {NewRecord, LaunchedRecord}
  /\ InitInv
  /\ s3Keys = {}
  /\ now \in 0..MaxMinutes
  /\ monitor = NoMonitor
  /\ polled = NoPoll

NextRec == Monitor \/ StorageChange \/ InstanceStateChange

SpecRec == InitRec /\ [][NextRec]_vars

\* one invocation of the status monitor with any event and any set of failing
\* calls, the event and the failures kept
Poll ==
  /\ monitor.kind = "none"
  /\ \E id \in EventIds, instanceId \in {NoInstance} \cup DOMAIN instances,
        failing \in SUBSET MonitorCalls :
       LET faults == [c \in MonitorCalls |-> c \in failing]
           end == MonitorHandler(id, instanceId, faults)
       IN /\ jobRecord' = end.record
          /\ monitor' = end.monitor
          /\ polled' = [id |-> id, instanceId |-> instanceId, failing |-> failing]
  /\ UNCHANGED <<catalog, instances, spotRequests, invVars, s3Keys, now>>

\* the job at the moment of a poll: any objects in the bucket, the instance in
\* any state, any minute of the job
InitPoll ==
  /\ catalog = OneCandidate
  /\ instances \in JobInstances
  /\ spotRequests = <<>>
  /\ jobRecord \in {NewRecord, LaunchedRecord}
  /\ InitInv
  /\ s3Keys \in SUBSET JobKeys
  /\ now \in 0..MaxMinutes
  /\ monitor = NoMonitor
  /\ polled = NoPoll

NextPoll == Poll

SpecPoll == InitPoll /\ [][NextPoll]_vars

(***************************************************************************)
(* The status monitor with the elapsed-time rule (part_004): the item is   *)
(* keyed by the file name, the outputs are listed, completion needs the    *)
(* input moved, and a stopped instance is a failure after the threshold.   *)
(***************************************************************************)
\* `elapsedMinutes > 5`
FailureThresholdMinutes == 5

\* the calls of one invocation that can fail; of the writes of the try block
\* the first one is UpdateCommand and the second one SecondUpdateCommand
TimedMonitorCalls == {"GetCommand", "ListObjects", "HeadJson", "HeadDone",
                      "DescribeInstances", "HeadError", "UpdateCommand",
                      "SecondUpdateCommand", "CatchUpdateCommand"}

\* checkOutputFiles: the listing under outputs/<base>, then HeadObject on the
\* JSON transcript; any error gives found: false
TimedCheckOutputFiles(faults) ==
  IF faults["ListObjects"] THEN [found |-> FALSE, error |-> TRUE]
  ELSE IF ~({JsonFileKey, TxtFileKey} \subseteq s3Keys) THEN [found |-> FALSE, error |-> FALSE]
  ELSE IF faults["HeadJson"] THEN [found |-> FALSE, error |-> TRUE]
  ELSE [found |-> TRUE, error |-> FALSE]

\* the catch block of the handler: the monitoring_error write, then the result
TimedMonitorCatch(message, faults, outputCheck) ==
  IF ~faults["CatchUpdateCommand"]
    THEN [record |-> UpdateStatus([status |-> "monitoring_error", error |-> message]),
          monitor |-> [kind |-> "returned", outputCheck |-> outputCheck,
                       result |-> [NoStatus EXCEPT !.isFailed = TRUE, !.error = message],
                       wrote |-> <<"monitoring_error">>,
                       writeFailed |-> message = "UpdateCommand"]]
    ELSE [record |-> jobRecord,
          monitor |-> [kind |-> "threw", outputCheck |-> outputCheck, result |-> NoStatus,
                       wrote |-> <<>>, writeFailed |-> TRUE]]

\* `elapsedMinutes > 5`
PastThreshold(elapsedMinutes) == elapsedMinutes > FailureThresholdMinutes

\* exports.handler of part_004, from the event to its result
TimedMonitorHandler(instanceId, faults) ==
  LET hasItem == ~faults["GetCommand"]
      elapsedMinutes == IF hasItem THEN now - jobRecord.timestamp ELSE 0
      outputCheck == TimedCheckOutputFiles(faults)
      inputMoved == CheckInputFileMoved(faults)
      instanceStatus ==
        IF hasItem THEN CheckInstanceStatus(instanceId, jobRecord.instanceInfo.region, faults)
        ELSE [running |-> FALSE]
      status == [NoStatus EXCEPT !.elapsedMinutes = elapsedMinutes,
                                 !.instanceRunning = instanceStatus.running,
                                 !.outputsFound = outputCheck.found,
                                 !.inputMoved = (inputMoved = "true")]
      returned(record, result, written, writeFailed) ==
        [record |-> record,
         monitor |-> [kind |-> "returned", outputCheck |-> outputCheck, result |-> result,
                      wrote |-> written, writeFailed |-> writeFailed]]
      marker == ~faults["HeadError"] /\ ErrorKey \in s3Keys
      noOutputs == [status EXCEPT !.isFailed = TRUE,
                                  !.error = "Instance stopped without producing outputs"]
  IN IF inputMoved = "throw"
       THEN TimedMonitorCatch("HeadObject", faults, outputCheck)
     ELSE IF outputCheck.found /\ inputMoved = "true"
       THEN IF ~faults["UpdateCommand"]
              THEN returned(UpdateStatus([status |-> "completed", outputKey |-> JsonFileKey,
                                          transcriptKey |-> TxtFileKey,
                                          processingTimeMinutes |-> elapsedMinutes]),
                            [status EXCEPT !.isComplete = TRUE], <<"completed">>, FALSE)
              ELSE TimedMonitorCatch("UpdateCommand", faults, outputCheck)
     ELSE IF instanceStatus.running
       THEN IF ~faults["UpdateCommand"]
              THEN returned(UpdateStatus([status |-> "processing",
                                          elapsedMinutes |-> elapsedMinutes]),
                            status, <<"processing">>, FALSE)
              ELSE TimedMonitorCatch("UpdateCommand", faults, outputCheck)
     ELSE IF PastThreshold(elapsedMinutes)
       THEN IF marker /\ ~faults["UpdateCommand"]
              THEN returned(UpdateStatus([status |-> "failed",
                              error |-> "Processing failed - file in error folder"]),
                            [status EXCEPT !.isFailed = TRUE,
                                           !.error = "File moved to error folder"],
                            <<"failed">>, FALSE)
            \* no marker, or the inner catch took the error of the marker's
            \* write: the second test of the elapsed time, and its write
            ELSE IF ~faults[IF marker THEN "SecondUpdateCommand" ELSE "UpdateCommand"]
              THEN returned(UpdateStatus([status |-> "failed",
                              error |-> "Instance terminated without outputs"]),
                            noOutputs, <<"failed">>, marker)
              ELSE TimedMonitorCatch("UpdateCommand", faults, outputCheck)
     ELSE returned(jobRecord, status, <<>>, FALSE)

\* one invocation of the handler of part_004 with any event and any set of
\* failing calls, the event and the failures kept
TimedPoll ==
  /\ monitor.kind = "none"
  /\ \E instanceId \in {NoInstance} \cup DOMAIN instances,
        failing \in SUBSET TimedMonitorCalls :
       LET faults == [c \in TimedMonitorCalls |-> c \in failing]
           end == TimedMonitorHandler(instanceId, faults)
       IN /\ jobRecord' = end.record
          /\ monitor' = end.monitor
          /\ polled' = [id |-> JobId, instanceId |-> instanceId, failing |-> failing]
  /\ UNCHANGED <<catalog, instances, spotRequests, invVars, s3Keys, now>>

\* the job at the moment of a poll, the minutes around the threshold included
InitTimed ==
  /\ catalog = OneCandidate
  /\ instances \in JobInstances
  /\ spotRequests = <<>>
  /\ jobRecord \in {NewRecord, LaunchedRecord}
  /\ InitInv
  /\ s3Keys \in SUBSET JobKeys
  /\ now \in 0..(FailureThresholdMinutes + MaxMinutes)
  /\ monitor = NoMonitor
  /\ polled = NoPoll

NextTimed == TimedPoll

SpecTimed == InitTimed /\ [][NextTimed]_vars

\* the external poller: it invokes the status monitor for the job, with the
\* instance the launch recorded, until a result carries isComplete or isFailed
PollerStopped ==
  /\ monitor.kind = "returned"
  /\ (monitor.result.isComplete \/ monitor.result.isFailed)

PollerInvoke ==
  /\ ~PollerStopped
  /\ \E failing \in FaultSets :
       LET faults == [c \in MonitorCalls |-> c \in failing]
           \* an instance EC2 no longer knows is looked up like no instance
           instanceId == IF jobRecord.instanceInfo.instanceId \in DOMAIN instances
                           THEN jobRecord.instanceInfo.instanceId ELSE NoInstance
           end == MonitorHandler(JobId, instanceId, faults)
       IN /\ jobRecord' = end.record
          /\ monitor' = end.monitor
          /\ polled' = [id |-> JobId, instanceId |-> instanceId, failing |-> failing]
  /\ UNCHANGED <<catalog, instances, spotRequests, invVars, s3Keys, now>>

\* the job's script uploads an output, moves the input to raw/done/ or to
\* error/; nothing is deleted
StorageAdd ==
  /\ \E key \in JobKeys \ s3Keys : s3Keys' = s3Keys \cup {key}
  /\ UNCHANGED <<cloudVars, invVars, now, monitor, polled>>

NextPoller == PollerInvoke \/ StorageAdd \/ InstanceStateChange

\* the poller's schedule fires as long as it has not stopped; the job and the
\* cloud owe nothing
SpecPoller == InitRec /\ [][NextPoller]_vars /\ WF_vars(PollerInvoke)

\* one poll of the job by either variant of the status monitor
NextEither == Poll \/ TimedPoll

SpecEither == InitTimed /\ [][NextEither]_vars

(***************************************************************************)
(* The instance manager of src/instanceManager.js: the regions and their   *)
(* subnets are walked in one nested loop, the spot request is checked once *)
(* after a fixed sleep, and the item is keyed by the file name of s3Key.   *)
(* The event's id stands for its s3Key here.                               *)
(***************************************************************************)
ManagerLaunchFailed == [message |-> "Failed to launch instance in all regions", cand |-> 0]

\* `throw lastError || new Error(...)`
ManagerThrown(err) == IF err = NoError THEN ManagerLaunchFailed ELSE err

\* updateDynamoDBStatus: SET #status, #timestamp, #updated [, #instance]
ManagerUpdateItem(status, info) ==
  [jobRecord EXCEPT !.status = status,
                    !.timestamp = now,
                    !.lastUpdated = now,
                    !.instanceInfo = IF info = NoInfo THEN @ ELSE info]

\* where launchInstance stands when the loops reach candidate k of the regions
\* walked so far: the next subnet, the next region, or the throw
ManagerLoop(i, k) ==
  IF k <= Len(spotAttempts[i]) THEN [pc |-> "spotRequest", idx |-> k, region |-> regionIdx[i]]
  ELSE IF regionIdx[i] < Len(REGIONS)
    THEN [pc |-> "plan", idx |-> k, region |-> regionIdx[i] + 1]
    ELSE [pc |-> "catch", idx |-> k, region |-> regionIdx[i]]

\* the loops go on at position `next`
ManagerContinue(i, next, err) ==
  /\ pc' = [pc EXCEPT ![i] = next.pc]
  /\ attemptIdx' = [attemptIdx EXCEPT ![i] = next.idx]
  /\ regionIdx' = [regionIdx EXCEPT ![i] = next.region]
  /\ outcome' = IF next.pc = "catch"
                  THEN [outcome EXCEPT ![i].error = ManagerThrown(err)]
                  ELSE outcome

\* the head of the region loop: the AMI test and getDefaultSubnets ([] also
\* stands for a failed lookup); before the first region, s3Key.split
ManagerRegion(i) ==
  /\ pc[i] = "plan"
  /\ \E subnetsOk \in BOOLEAN :
       LET r == regionIdx[i]
           asked == ~AmiNotConfigured(catalog[r].amiId)
           subnets == IF asked /\ subnetsOk THEN catalog[r].subnets ELSE <<>>
           k == Len(spotAttempts[i]) + 1
       IN IF event[i].id = NoId
            THEN /\ pc' = [pc EXCEPT ![i] = "catch"]
                 /\ outcome' = [outcome EXCEPT ![i].error = ApiError("TypeError", 0)]
                 /\ UNCHANGED <<spotAttempts, attemptIdx, regionIdx, regionLookups>>
            ELSE /\ regionLookups' = [regionLookups EXCEPT ![i] =
                       [region |-> r, securityGroupId |-> "", subnets |-> subnets]]
                 /\ spotAttempts' = [spotAttempts EXCEPT ![i] = @ \o RegionAttempts(r, subnets)]
                 /\ IF Len(subnets) > 0
                      THEN /\ pc' = [pc EXCEPT ![i] = "spotRequest"]
                           /\ attemptIdx' = [attemptIdx EXCEPT ![i] = k]
                           /\ UNCHANGED <<regionIdx, outcome>>
                      ELSE ManagerContinue(i, ManagerLoop(i, k), lastError[i])
  /\ UNCHANGED <<cloudVars, event, instanceCheck, onDemandAttempts, spotInstanceRequestId,
                 polls, lastError, calls, spotResults, wrote, liveSince, recVars>>

\* RequestSpotInstances for the subnet; its error goes to the inner catch
ManagerSpotRequest(i) ==
  /\ pc[i] = "spotRequest"
  /\ LET k == attemptIdx[i] IN
     /\ calls' = Log(i, "RequestSpotInstances", k)
     /\ \E ok \in BOOLEAN :
          IF ok
            THEN /\ spotRequests' = spotRequests @@
                      (<<i, k>> :> [State |-> "open", InstanceId |-> NoInstance])
                 /\ spotInstanceRequestId' = [spotInstanceRequestId EXCEPT ![i] = <<i, k>>]
                 /\ pc' = [pc EXCEPT ![i] = "wait"]
                 /\ UNCHANGED spotResults
            ELSE /\ spotInstanceRequestId' = [spotInstanceRequestId EXCEPT ![i] = <<>>]
                 /\ pc' = [pc EXCEPT ![i] = "onDemand"]
                 /\ spotResults' = [spotResults EXCEPT ![i] = Append(@, "rejected")]
                 /\ UNCHANGED spotRequests
  /\ UNCHANGED <<catalog, instances, jobRecord, event, regionIdx, instanceCheck,
                 spotAttempts, onDemandAttempts, attemptIdx, polls, lastError, outcome,
                 wrote, liveSince, regionLookups, recVars>>

\* the sleep, then DescribeSpotInstanceRequests once: a fulfilled request is
\* tagged, an unfulfilled one is left behind and the loop goes to the next
\* subnet, an error of the call goes to the inner catch
ManagerCheckSpot(i) ==
  /\ pc[i] = "wait"
  /\ LET k == attemptIdx[i]
         request == spotRequests[spotInstanceRequestId[i]]
     IN \E ok \in BOOLEAN :
          IF ~ok
            THEN /\ pc' = [pc EXCEPT ![i] = "onDemand"]
                 /\ spotResults' = [spotResults EXCEPT ![i] = Append(@, "error")]
                 /\ spotRequests' = Kept(spotRequests, AwaitedByOthers(i))
                 /\ UNCHANGED <<attemptIdx, regionIdx, outcome>>
            ELSE IF Fulfilled(request)
              THEN /\ pc' = [pc EXCEPT ![i] = "tag"]
                   /\ UNCHANGED <<attemptIdx, regionIdx, outcome, spotResults, spotRequests>>
              ELSE /\ spotResults' = [spotResults EXCEPT ![i] = Append(@, "unfulfilled")]
                   /\ spotRequests' = Kept(spotRequests, AwaitedByOthers(i))
                   /\ ManagerContinue(i, ManagerLoop(i, k + 1), lastError[i])
  /\ UNCHANGED <<catalog, instances, jobRecord, event, instanceCheck, spotAttempts,
                 onDemandAttempts, spotInstanceRequestId, polls, lastError, calls, wrote,
                 liveSince, regionLookups, recVars>>

\* CreateTags on the fulfilled spot instance, then the return; its error goes
\* to the inner catch
ManagerTag(i) ==
  /\ pc[i] = "tag"
  /\ LET k == attemptIdx[i]
         instanceId == spotRequests[spotInstanceRequestId[i]].InstanceId
     IN /\ calls' = Log(i, "CreateTags", k)
        /\ spotRequests' = Kept(spotRequests, AwaitedByOthers(i))
        /\ \E ok \in BOOLEAN :
             IF ok
               THEN /\ instances' = [instances EXCEPT ![instanceId].project = TRUE,
                                                      ![instanceId].type = "spot"]
                    /\ outcome' = [outcome EXCEPT ![i].info = Acquired(i, instanceId, "spot")]
                    /\ pc' = [pc EXCEPT ![i] = "update"]
                    /\ spotResults' = [spotResults EXCEPT ![i] = Append(@, "fulfilled")]
               ELSE /\ pc' = [pc EXCEPT ![i] = "onDemand"]
                    /\ spotResults' = [spotResults EXCEPT ![i] = Append(@, "error")]
                    /\ UNCHANGED <<instances, outcome>>
  /\ UNCHANGED <<catalog, jobRecord, event, regionIdx, instanceCheck,
                 spotAttempts, onDemandAttempts, attemptIdx, spotInstanceRequestId,
                 polls, lastError, wrote, liveSince, regionLookups, recVars>>

\* the inner catch: RunInstances in the same subnet, tags in the same call
ManagerOnDemand(i) ==
  /\ pc[i] = "onDemand"
  /\ LET k == attemptIdx[i]
         instanceId == <<i, k, "on-demand">>
     IN /\ calls' = Log(i, "RunInstances", k)
        /\ \E ok \in BOOLEAN :
             IF ok
               THEN /\ instances' = instances @@
                         (instanceId :> [region |-> spotAttempts[i][k].region,
                                         state |-> "pending", project |-> TRUE,
                                         type |-> "on-demand"])
                    /\ outcome' = [outcome EXCEPT ![i].info =
                                     Acquired(i, instanceId, "on-demand")]
                    /\ pc' = [pc EXCEPT ![i] = "update"]
                    /\ UNCHANGED <<lastError, attemptIdx, regionIdx>>
               ELSE /\ lastError' = [lastError EXCEPT ![i] = ApiError("RunInstances", k)]
                    /\ ManagerContinue(i, ManagerLoop(i, k + 1), ApiError("RunInstances", k))
                    /\ UNCHANGED instances
  /\ UNCHANGED <<catalog, spotRequests, jobRecord, event, instanceCheck,
                 spotAttempts, onDemandAttempts, spotInstanceRequestId, polls,
                 spotResults, wrote, liveSince, regionLookups, recVars>>

\* updateDynamoDBStatus(filename, 'processing', instanceInfo), then the return
ManagerUpdate(i) ==
  /\ pc[i] = "update"
  /\ \E ok \in BOOLEAN :
       IF ok
         THEN /\ jobRecord' = ManagerUpdateItem("processing", outcome[i].info)
              /\ wrote' = [wrote EXCEPT ![i] = Append(@, "processing")]
              /\ pc' = [pc EXCEPT ![i] = "done"]
              /\ outcome' = [outcome EXCEPT ![i].kind = "returned", ![i].id = event[i].id]
         ELSE /\ pc' = [pc EXCEPT ![i] = "catch"]
              /\ outcome' = [outcome EXCEPT ![i].error = ApiError("UpdateCommand", 0)]
              /\ UNCHANGED <<jobRecord, wrote>>
  /\ UNCHANGED <<catalog, instances, spotRequests, event, regionIdx, instanceCheck,
                 spotAttempts, onDemandAttempts, attemptIdx, spotInstanceRequestId,
                 polls, lastError, calls, spotResults, liveSince, regionLookups, recVars>>

\* the handler's catch block: `if (s3Key)` the error status, then the rethrow
ManagerCatch(i) ==
  /\ pc[i] = "catch"
  /\ pc' = [pc EXCEPT ![i] = "done"]
  /\ IF event[i].id # NoId
       THEN \E ok \in BOOLEAN :
            IF ok
              THEN /\ jobRecord' = ManagerUpdateItem("error", ErrorInfo(outcome[i].error))
                   /\ wrote' = [wrote EXCEPT ![i] = Append(@, "error")]
                   /\ outcome' = [outcome EXCEPT ![i].kind = "threw"]
              ELSE /\ outcome' = [outcome EXCEPT ![i].kind = "threw",
                                                 ![i].error = ApiError("UpdateCommand", 0)]
                   /\ UNCHANGED <<jobRecord, wrote>>
       ELSE /\ outcome' = [outcome EXCEPT ![i].kind = "threw"]
            /\ UNCHANGED <<jobRecord, wrote>>
  /\ UNCHANGED <<catalog, instances, spotRequests, event, regionIdx, instanceCheck,
                 spotAttempts, onDemandAttempts, attemptIdx, spotInstanceRequestId,
                 polls, lastError, calls, spotResults, liveSince, regionLookups, recVars>>

\* exports.handler of src/instanceManager.js, one action per awaited call
ManagerLaunch(i) ==
  \/ Start(i) \/ ProbeRegion(i) \/ ManagerRegion(i) \/ ManagerSpotRequest(i)
  \/ ManagerCheckSpot(i) \/ ManagerTag(i) \/ ManagerOnDemand(i)
  \/ ManagerUpdate(i) \/ ManagerCatch(i)

\* the job is launched in any minute after its admission
InitManager ==
  /\ catalog \in Catalogs
  /\ instances = <<>>
  /\ spotRequests = <<>>
  /\ InitRecord
  /\ InitInv
  /\ s3Keys = {}
  /\ now \in 0..MaxMinutes
  /\ monitor = NoMonitor
  /\ polled = NoPoll

NextManager == ManagerLaunch("A") \/ SpotFulfilled \/ SpotClosed

SpecManager == InitManager /\ [][NextManager]_vars

(***************************************************************************)
(* Vocabulary of the properties.                                           *)
(***************************************************************************)
\* the candidates of the calls of one operation, in the order they were sent
RECURSIVE CandsOf(_, _)
CandsOf(log, op) ==
  IF log = <<>> THEN <<>>
  ELSE IF Head(log).op = op THEN <<Head(log).cand>> \o CandsOf(Tail(log), op)
  ELSE CandsOf(Tail(log), op)

\* positions of the log holding a call of the operation for the candidate
Positions(log, op, k) == {p \in 1..Len(log) : log[p].op = op /\ log[p].cand = k}

AcquisitionOps == {"RequestSpotInstances", "RunInstances"}

UpTo(n) == [k \in 1..n |-> k]

\* launchInstance of the invocation has run and has returned or thrown
LaunchInstanceEnded(i) ==
  /\ event[i].action = "launch"
  /\ ~instanceCheck[i].hasRunning
  /\ pc[i] \in {"update", "catch", "done"}

\* the spot phase of the invocation ended without a resource
EverySpotFailed(i) ==
  /\ LaunchInstanceEnded(i)
  /\ outcome[i].info.type # "spot"

\* the instances an invocation's requests created, tagged or not
CreatedBy(i) == {id \in DOMAIN instances : id[1] = i}

(***************************************************************************)
(* C2 (as stated): when every spot attempt of a launch over N candidates    *)
(* failed, RunInstances was called exactly N times, in candidate order.     *)
(***************************************************************************)
C2_ExactlyN ==
  \A i \in Invs :
    EverySpotFailed(i) =>
      CandsOf(calls[i], "RunInstances") = UpTo(Len(spotAttempts[i]))

(***************************************************************************)
(* C2 (amended): the on-demand phase walks the same candidate list in the   *)
(* same order, one RunInstances call per candidate up to and including the  *)
(* first that succeeds (all N only if every on-demand attempt fails too),   *)
(* and no RunInstances call is sent before all N spot attempts have ended.  *)
(***************************************************************************)
C2_OnDemandAfterSpotInOrder ==
  \A i \in Invs :
    LET log == calls[i]
        n == Len(spotAttempts[i])
        onDemand == CandsOf(log, "RunInstances")
    IN /\ onDemandAttempts[i] = spotAttempts[i]
       /\ onDemand = UpTo(Len(onDemand))
       /\ Len(onDemand) <= n
       /\ \A p \in 1..Len(log) :
            log[p].op = "RunInstances" =>
              /\ CandsOf(SubSeq(log, 1, p - 1), "RequestSpotInstances") = UpTo(n)
              /\ Len(spotResults[i]) = n
              /\ \A q \in p..Len(log) : log[q].op = "RunInstances"
       /\ EverySpotFailed(i) =>
            IF outcome[i].info.type = "on-demand"
              THEN onDemand = UpTo(outcome[i].info.instanceId[2])
              ELSE onDemand = UpTo(n)

C2_Witness ==
  \E i \in Invs :
    /\ EverySpotFailed(i)
    /\ Len(spotAttempts[i]) = 2
    /\ CandsOf(calls[i], "RunInstances") = <<1, 2>>
    /\ outcome[i].info.type = "on-demand"

(***************************************************************************)
(* C6: when a launch invocation has ended, at most one instance created by  *)
(* its requests exists, counting the instances of spot requests fulfilled   *)
(* after their last poll or after their attempt was abandoned.              *)
(***************************************************************************)
C6_AtMostOneInstance ==
  \A i \in Invs : pc[i] = "done" => Cardinality(CreatedBy(i)) <= 1

(***************************************************************************)
(* C7: a spot request that was submitted and whose attempt gave no resource *)
(* has its cancellation sent before the next candidate's spot request and   *)
(* before any on-demand call; the result of the cancellation call is not    *)
(* propagated: the next candidate is tried, the invocation does not throw   *)
(* the cancellation's error.                                                *)
(***************************************************************************)
C7_CancelBeforeNext ==
  \A i \in Invs :
    LET log == calls[i]
    IN /\ \A k \in 1..Len(spotResults[i]) :
            spotResults[i][k] \in {"timeout", "terminal", "error"} =>
              \* the attempt is over once the invocation left its catch block
              (pc[i] = "spotCatch" /\ attemptIdx[i] = k) \/
              \E c \in Positions(log, "CancelSpotInstanceRequests", k) :
                /\ \E p \in Positions(log, "RequestSpotInstances", k) : p < c
                /\ \A q \in 1..Len(log) :
                     (log[q].op \in AcquisitionOps /\ log[q].cand # k
                        /\ \E p \in Positions(log, "RequestSpotInstances", k) : p < q)
                     => c < q
                /\ \A q \in Positions(log, "RunInstances", k) : c < q
       /\ \A c \in 1..Len(log) :
            (log[c].op = "CancelSpotInstanceRequests" /\ c < Len(log)) =>
              /\ log[c + 1].op \in AcquisitionOps
              /\ log[c + 1].cand = IF log[c + 1].op = "RequestSpotInstances"
                                     THEN log[c].cand + 1 ELSE 1
       /\ outcome[i].error.message # "CancelSpotInstanceRequests"
       /\ lastError[i].message # "CancelSpotInstanceRequests"

\* the cancellation of candidate 1 failed (its request is still open) and the
\* invocation went on to candidate 2
C7_Witness ==
  \E i \in Invs :
    /\ Len(spotResults[i]) >= 1
    /\ spotResults[i][1] = "timeout"
    /\ <<i, 1>> \in DOMAIN spotRequests
    /\ spotRequests[<<i, 1>>].State = "open"
    /\ Positions(calls[i], "RequestSpotInstances", 2) # {}

(***************************************************************************)
(* C8: when the spot request of candidate #1 stays pending for the whole    *)
(* maximum wait, waitForSpotInstance gives null (the attempt fails as "not  *)
(* fulfilled in time"), the cancellation of the request is sent, and the    *)
(* next acquisition call is the spot request of candidate #2, with no       *)
(* on-demand call in between.                                               *)
(***************************************************************************)
C8_TimeoutThenNextSpot ==
  \A i \in Invs :
    (Len(spotResults[i]) >= 1 /\ spotResults[i][1] = "timeout"
       /\ Len(spotAttempts[i]) >= 2) =>
      LET log == calls[i]
      IN /\ log[1] = [op |-> "RequestSpotInstances", cand |-> 1]
         /\ Len(log) = 1 => /\ pc[i] = "spotCatch"
                            /\ lastError[i] = NotFulfilled(1)
                            /\ outcome[i].info = NoInfo
         /\ Len(log) >= 2 => log[2] = [op |-> "CancelSpotInstanceRequests", cand |-> 1]
         /\ Len(log) = 2 => pc[i] = "spotRequest" /\ attemptIdx[i] = 2
         /\ Len(log) >= 3 => log[3] = [op |-> "RequestSpotInstances", cand |-> 2]

C8_Witness ==
  \E i \in Invs :
    /\ Len(spotResults[i]) >= 1
    /\ spotResults[i][1] = "timeout"
    /\ Len(calls[i]) >= 3
    /\ calls[i][3] = [op |-> "RequestSpotInstances", cand |-> 2]

(***************************************************************************)
(* C9: the candidate list is in catalog region order and, within a region,  *)
(* in the order of the subnets returned for it; once built it is the same   *)
(* list whatever the acquisition attempts do.                               *)
(***************************************************************************)
RegionPos(name) == CHOOSE r \in RegionIdx : REGIONS[r] = name

\* the subnets of the candidates of one region, in list order
RECURSIVE SubnetsIn(_, _)
SubnetsIn(attempts, name) ==
  IF attempts = <<>> THEN <<>>
  ELSE IF Head(attempts).region = name
    THEN <<Head(attempts).subnet>> \o SubnetsIn(Tail(attempts), name)
    ELSE SubnetsIn(Tail(attempts), name)

InCatalogOrder(attempts) ==
  /\ \A a, b \in 1..Len(attempts) :
       a < b => RegionPos(attempts[a].region) <= RegionPos(attempts[b].region)
  /\ \A r \in RegionIdx :
       SubnetsIn(attempts, REGIONS[r]) \in {<<>>, catalog[r].subnets}

Planned(i) == pc[i] \notin {"idle", "probe", "plan"}

C9_ListFrozen ==
  \A i \in Invs :
    Planned(i) => /\ spotAttempts'[i] = spotAttempts[i]
                  /\ onDemandAttempts'[i] = onDemandAttempts[i]

C9_CatalogOrder ==
  /\ [](\A i \in Invs : /\ InCatalogOrder(spotAttempts[i])
                        /\ InCatalogOrder(onDemandAttempts[i]))
  /\ [][C9_ListFrozen]_vars

\* two regions contributed, the first with nothing to offer in the end
C9_Witness ==
  \E i \in Invs :
    /\ Len(spotAttempts[i]) = 2
    /\ spotAttempts[i][1].region # spotAttempts[i][2].region
    /\ Len(spotResults[i]) = 2
    /\ pc[i] = "onDemand"

(***************************************************************************)
(* C10: a launch returns an acquisition result only after the job record    *)
(* was written with status processing and that result as instanceInfo, and  *)
(* the acquisition is written once, not twice.                              *)
(***************************************************************************)
C10_PersistedBeforeReturn ==
  \A i \in Invs :
    /\ Len(SelectSeq(wrote[i], LAMBDA st : st = "processing")) <= 1
    /\ (event[i].action = "launch" /\ outcome[i].kind = "returned" /\ ~outcome[i].skipped) =>
         /\ outcome[i].info.instanceId \in DOMAIN instances
         /\ outcome[i].id = event[i].id
         /\ wrote[i] = <<"processing">>
         /\ jobRecord.status = "processing"
         /\ jobRecord.instanceInfo = outcome[i].info

C10_Witness ==
  \E i \in Invs :
    /\ event[i].action = "launch"
    /\ outcome[i].kind = "returned"
    /\ outcome[i].info.type = "spot"
    /\ jobRecord.instanceInfo = outcome[i].info

(***************************************************************************)
(* C3: when the probe of a `launch` finds a running or pending job-family   *)
(* instance, the action returns the probe's result with skipped = true,     *)
(* sends no spot and no on-demand request and leaves the job record alone.  *)
(***************************************************************************)
C3_SkipWhenRunning ==
  \A i \in Invs :
    (event[i].action = "launch" /\ instanceCheck[i].hasRunning) =>
      /\ pc[i] = "done"
      /\ outcome[i].kind = "returned"
      /\ outcome[i].skipped
      /\ outcome[i].check = instanceCheck[i]
      /\ instanceCheck[i].instances # {}
      /\ calls[i] = <<>>
      /\ CreatedBy(i) = {}
      /\ {id \in DOMAIN spotRequests : id[1] = i} = {}
      /\ wrote[i] = <<>>
      /\ jobRecord = NewRecord

C3_Witness ==
  \E i \in Invs :
    /\ event[i].action = "launch"
    /\ instanceCheck[i].hasRunning
    /\ instanceCheck[i].region = REGIONS[2]
    /\ outcome[i].skipped

(***************************************************************************)
(* C4 (as stated): at no time do instances acquired by two different        *)
(* invocations exist.                                                       *)
(***************************************************************************)
C4_NoSecondResource ==
  \A i, j \in Invs : i # j => (CreatedBy(i) = {} \/ CreatedBy(j) = {})

(***************************************************************************)
(* C4 (amended): an invocation that begins while a tagged running or        *)
(* pending instance exists acquires nothing, as long as that instance stays *)
(* running or pending and none of the probe's region queries fails;         *)
(* invocations whose probes end before the other's instance is tagged (or   *)
(* whose query fails) can each acquire one.                                 *)
(***************************************************************************)
C4_ProbeShields ==
  \A i \in Invs :
    (event[i].action = "launch" /\ liveSince[i] # {}) =>
      /\ calls[i] = <<>>
      /\ CreatedBy(i) = {}
      /\ pc[i] \in {"probe", "done"}
      /\ pc[i] = "done" => outcome[i].skipped

\* B began after A's on-demand instance, while it was still pending
C4_Witness ==
  /\ event["B"].action = "launch"
  /\ liveSince["B"] = {<<"A", 1, "on-demand">>}
  /\ instances[<<"A", 1, "on-demand">>].state = "pending"
  /\ outcome["B"].skipped

(***************************************************************************)
(* C1: whatever the instance's liveness and whether or not the error marker *)
(* exists, an invocation of the status monitor that found both output       *)
(* artifacts, and whose record writes were accepted, returns isComplete =   *)
(* true and isFailed = false and leaves the status completed.               *)
(***************************************************************************)
C1_OutputsWin ==
  (monitor.kind # "none" /\ monitor.outputCheck.found /\ ~monitor.writeFailed) =>
    /\ monitor.kind = "returned"
    /\ monitor.result.isComplete
    /\ ~monitor.result.isFailed
    /\ monitor.wrote = <<"completed">>
    /\ jobRecord.status = "completed"

(***************************************************************************)
(* C5: once the status of the job record is completed or failed, no write   *)
(* sets it to a status that is not terminal.                                *)
(***************************************************************************)
TerminalStatuses == {"completed", "failed"}

C5_TerminalKept ==
  [][jobRecord.status \in TerminalStatuses => jobRecord'.status \in TerminalStatuses]_vars

(***************************************************************************)
(* C11: when every spot attempt and every on-demand attempt of a launch    *)
(* has failed, the job has an id and the record store accepts the write,   *)
(* the handler leaves the job record with status error and an instanceInfo *)
(* of the failure's message and the time of the write, and throws that     *)
(* failure to its caller.                                                  *)
(***************************************************************************)
\* launchInstance of the invocation threw: no candidate gave a resource
Exhausted(i) ==
  /\ LaunchInstanceEnded(i)
  /\ outcome[i].info = NoInfo
  /\ CandsOf(calls[i], "RequestSpotInstances") = UpTo(Len(spotAttempts[i]))
  /\ CandsOf(calls[i], "RunInstances") = UpTo(Len(onDemandAttempts[i]))

C12_LastErrorThrown ==
  \A i \in Invs :
    (Exhausted(i) /\ Len(onDemandAttempts[i]) >= 1) =>
      /\ outcome[i].error = ApiError("RunInstances", Len(onDemandAttempts[i]))
      /\ pc[i] = "done" => outcome[i].kind = "threw"

(***************************************************************************)
(* C13: a poll that finds no output artifact, no live instance of the job  *)
(* and the input artifact at the error location, with the error-marker     *)
(* lookup answering and the record write accepted, returns isComplete =    *)
(* false, isFailed = true and the error "File moved to error folder", and  *)
(* leaves the status failed, in any minute of the job.                     *)
(***************************************************************************)
NoOutputArtifact == JsonFileKey \notin s3Keys /\ TxtFileKey \notin s3Keys

NoLiveInstance == \A id \in DOMAIN instances : instances[id].state \notin LiveStates

\* the poll was made for the job and the record store took its writes
WritesAccepted ==
  /\ monitor.kind # "none"
  /\ polled.id # NoId
  /\ polled.failing \cap {"UpdateCommand", "CatchUpdateCommand"} = {}

C13_ErrorMarkerFails ==
  (WritesAccepted /\ NoOutputArtifact /\ NoLiveInstance /\ ErrorKey \in s3Keys
     /\ "HeadError" \notin polled.failing) =>
    /\ monitor.kind = "returned"
    /\ ~monitor.result.isComplete
    /\ monitor.result.isFailed
    /\ monitor.result.error = "File moved to error folder"
    /\ jobRecord.status = "failed"

(***************************************************************************)
(* C14: a poll of a job for which no resource was ever acquired, that      *)
(* finds no output artifact and no error marker, returns isComplete =      *)
(* false and isFailed = false.                                             *)
(***************************************************************************)
NoResourceEver ==
  /\ instances = <<>>
  /\ jobRecord.instanceInfo.instanceId = NoInstance
  /\ polled.instanceId = NoInstance

C14_StillWaiting ==
  (monitor.kind # "none" /\ NoResourceEver /\ NoOutputArtifact /\ ErrorKey \notin s3Keys) =>
    /\ monitor.kind = "returned"
    /\ ~monitor.result.isComplete
    /\ ~monitor.result.isFailed

(***************************************************************************)
(* C15: two check actions, the second started after the first returned and *)
(* the cloud unchanged in between, return the same hasRunning, region and  *)
(* instance list.                                                          *)
(***************************************************************************)
BothChecked ==
  \A i \in Invs : event[i].action = "check" /\ pc[i] = "done" /\ outcome[i].kind = "returned"

SignalCalls == {"HeadJson", "HeadTxt", "HeadDone", "DescribeInstances", "HeadError"}

C16_SignalErrorAbsorbed ==
  (monitor.kind # "none" /\ polled.id # NoId /\ polled.failing \subseteq SignalCalls
     /\ Cardinality(polled.failing) = 1) =>
    /\ monitor.kind = "returned"
    /\ monitor.wrote # <<"monitoring_error">>
    /\ jobRecord.status # "monitoring_error"

(***************************************************************************)
(* C17: a poll of a job never throws: whichever of its storage, compute    *)
(* and record calls fail, the record write included, it returns a result.  *)
(***************************************************************************)
C17_NeverThrows ==
  (monitor.kind # "none" /\ polled.id # NoId) => monitor.kind = "returned"

(***************************************************************************)
(* C18: the result of a poll that reported monitoring_error has neither    *)
(* isComplete nor isFailed set, so a poller that stops on either flag      *)
(* polls again.                                                            *)
(***************************************************************************)
C18_PollingContinues ==
  (monitor.kind = "returned" /\ monitor.wrote = <<"monitoring_error">>) =>
    /\ ~monitor.result.isComplete
    /\ ~monitor.result.isFailed

(***************************************************************************)
(* C19: a poll of a job whose record lookup fails, the record writes       *)
(* accepted, reports monitoring_error and leaves that status in the        *)
(* record.                                                                 *)
(***************************************************************************)
C19_UnreadableRecordReported ==
  (WritesAccepted /\ "GetCommand" \in polled.failing) =>
    /\ monitor.wrote = <<"monitoring_error">>
    /\ jobRecord.status = "monitoring_error"

(***************************************************************************)
(* C20: every poll of a job that returns, the record writes accepted,      *)
(* leaves lastUpdated at the time of the poll, whichever branch it took.   *)
(***************************************************************************)
C20_EveryBranchWrites ==
  (WritesAccepted /\ monitor.kind = "returned") => jobRecord.lastUpdated = now

\* as C20, for the polls that write: the completed, processing and failed
\* branches and the monitoring_error report set lastUpdated with their
\* status; a poll that is still waiting leaves the whole record as it was
C20_WritingBranchesDate ==
  /\ monitor.wrote # <<>> =>
       /\ jobRecord.lastUpdated = now
       /\ jobRecord.status = monitor.wrote[1]
  /\ (monitor.kind # "none" /\ monitor.wrote = <<>>) =>
       /\ jobRecord \in {NewRecord, LaunchedRecord}
       /\ WritesAccepted =>
            (~monitor.result.isComplete /\ ~monitor.result.isFailed)

C20_Witness ==
  /\ monitor.wrote = <<"processing">>
  /\ now = MaxMinutes
  /\ jobRecord.lastUpdated = MaxMinutes
  /\ jobRecord.timestamp # jobRecord.lastUpdated

(***************************************************************************)
(* C21: a poll writes completed only when it found both output artifacts,  *)
(* writes failed only when it found no outputs, saw no live instance and   *)
(* found the error marker, sets a terminal status in no other way, and     *)
(* leaves the whole job record as it was when it is still waiting.         *)
(***************************************************************************)
C21_TerminalOnlyInTerminalBranches ==
  [][monitor' # monitor =>
       /\ monitor'.wrote = <<"completed">> =>
            /\ {JsonFileKey, TxtFileKey} \subseteq s3Keys
            /\ monitor'.result.outputsFound
            /\ monitor'.result.isComplete
       /\ monitor'.wrote = <<"failed">> =>
            /\ ~monitor'.result.outputsFound
            /\ ~monitor'.result.instanceRunning
            /\ ErrorKey \in s3Keys
       /\ (jobRecord'.status \in TerminalStatuses /\ jobRecord'.status # jobRecord.status) =>
            monitor'.wrote = <<jobRecord'.status>>
       /\ monitor'.wrote = <<>> => jobRecord' = jobRecord]_vars

C21_Witness ==
  /\ monitor.wrote = <<"failed">>
  /\ jobRecord.status = "failed"
  /\ \E id \in DOMAIN instances : instances[id].state = "terminated"
  /\ polled.instanceId \in DOMAIN instances

(***************************************************************************)
(* C22: the probe queries the regions in the order of the catalog, from    *)
(* the first; the first region that answers with a running or pending      *)
(* job-family instance ends the scan and the result holds that region and  *)
(* its instances only; hasRunning = false is returned only after the last  *)
(* region, when no region reported an instance.                            *)
(***************************************************************************)
\* the invocation takes a step of its scan
Scans(i) == pc[i] = "probe" /\ (pc'[i] # "probe" \/ regionIdx'[i] # regionIdx[i])

C22_FirstMatchingRegion ==
  [][\A i \in Invs :
       /\ (pc[i] = "idle" /\ pc'[i] = "probe") => regionIdx'[i] = 1
       /\ Scans(i) =>
            LET r == regionIdx[i]
                check == outcome'[i].check
            IN /\ pc'[i] = "probe" =>
                    (regionIdx'[i] = r + 1 /\ outcome'[i] = outcome[i])
               /\ pc'[i] # "probe" =>
                    /\ pc'[i] = "done"
                    /\ check.hasRunning \/ r = Len(REGIONS)
                    /\ check.hasRunning =>
                         /\ check.region = REGIONS[r]
                         /\ check.instances = RunningInstances(r)
                         /\ check.instances # {}
                         /\ \A id \in check.instances : instances[id].region = REGIONS[r]
                    /\ ~check.hasRunning => check = NoCheck
               \* the region answered, as every region before it did
               /\ (liveSince'[i] # {} /\ RunningInstances(r) # {}) =>
                    (pc'[i] = "done" /\ check.hasRunning)]_vars

C22_Witness ==
  \E i \in Invs :
    /\ pc[i] = "done"
    /\ liveSince[i] # {}
    /\ outcome[i].check.region = REGIONS[2]
    /\ RunningInstances(3) # {}
    /\ outcome[i].check.instances = RunningInstances(2)

(***************************************************************************)
(* C23: a region query that fails neither ends the probe nor makes the     *)
(* handler throw: the scan goes on with the next region whenever a region  *)
(* reported no instance, for whatever reason; it ends without a find only  *)
(* after the last region, with hasRunning = false, and a launch then goes  *)
(* on to plan its candidates.                                              *)
(***************************************************************************)
C23_ProbeFailsOpen ==
  [][\A i \in Invs :
       Scans(i) =>
         LET r == regionIdx[i]
             found == instanceCheck'[i].hasRunning
         IN /\ pc'[i] \in {"probe", "plan", "done"}
            /\ outcome'[i].error = NoError
            /\ (pc'[i] = "probe") = (~found /\ r < Len(REGIONS))
            /\ pc'[i] = "probe" => regionIdx'[i] = r + 1
            /\ (pc'[i] # "probe" /\ ~found) =>
                 /\ instanceCheck'[i] = NoCheck
                 /\ event[i].action = "launch" =>
                      (pc'[i] = "plan" /\ outcome'[i].kind = "none")
                 /\ event[i].action = "check" =>
                      (pc'[i] = "done" /\ outcome'[i].kind = "returned"
                         /\ outcome'[i].check = NoCheck)]_vars

\* every region holds a running or pending job-family instance and the probe
\* of a launch reported none: each of its queries failed
C23_Witness ==
  \E i \in Invs :
    /\ event[i].action = "launch"
    /\ pc[i] = "spotRequest"
    /\ ~instanceCheck[i].hasRunning
    /\ \A r \in RegionIdx : RunningInstances(r) # {}

(***************************************************************************)
(* C24: a check action sends no spot request, no on-demand request, no     *)
(* cancellation and no tag, and writes no job record, whatever its probe   *)
(* finds and whichever of its region queries fail: each of its steps       *)
(* leaves the instances, the spot requests and the job record as they are. *)
(***************************************************************************)
C24_CheckReadOnly ==
  /\ [](\A i \in Invs :
          (event[i].action = "check" /\ pc[i] # "idle") =>
            /\ pc[i] \in {"probe", "done"}
            /\ calls[i] = <<>>
            /\ wrote[i] = <<>>
            /\ CreatedBy(i) = {}
            /\ spotRequests = <<>>
            /\ jobRecord = NewRecord)
  /\ [][\A i \in Invs :
          (event'[i].action = "check" /\ (pc'[i] # pc[i] \/ regionIdx'[i] # regionIdx[i])) =>
            /\ UNCHANGED cloudVars
            /\ calls' = calls
            /\ wrote' = wrote]_vars

\* a check that returned hasRunning = false although a job-family instance
\* is running or pending: one of its queries failed
C24_Witness ==
  \E i \in Invs :
    /\ event[i].action = "check"
    /\ pc[i] = "done"
    /\ outcome[i].kind = "returned"
    /\ ~outcome[i].check.hasRunning
    /\ TaggedLive # {}

(***************************************************************************)
(* C25: planning a region adds no candidate when the region's image id is  *)
(* unset or the placeholder, when its security group was not resolved or   *)
(* when no default subnet was found, and otherwise adds one candidate per  *)
(* subnet found, in the order found, to the spot list and to the on-demand *)
(* list; after any region but the last, planning goes on with the next.    *)
(***************************************************************************)
\* the invocation takes a step of its planning
Plans(i) == pc[i] = "plan" /\ (pc'[i] # "plan" \/ regionIdx'[i] # regionIdx[i])

Sends(i, op) ==
  /\ Len(calls'[i]) = Len(calls[i]) + 1
  /\ calls'[i][Len(calls'[i])].op = op

C26_TagOnlyFulfilled ==
  /\ [](\A i \in Invs :
          /\ \A k \in 1..Len(spotResults[i]) :
               spotResults[i][k] \in {"timeout", "terminal", "rejected"} =>
                 Positions(calls[i], "CreateTags", k) = {}
          /\ \A id \in CreatedBy(i) :
               (id[3] = "spot" /\ instances[id].project) =>
                 /\ Positions(calls[i], "CreateTags", id[2]) # {}
                 /\ spotResults[i][id[2]] = "fulfilled")
  /\ [][\A i \in Invs :
          Sends(i, "CreateTags") =>
            LET k == calls'[i][Len(calls'[i])].cand
                id == <<i, k>>
            IN /\ k = attemptIdx[i]
               /\ id \in DOMAIN spotRequests
               /\ spotRequests[id].State = "active"
               /\ spotRequests[id].InstanceId = <<i, k, "spot">>
               /\ Len(spotResults[i]) = k - 1
               /\ Positions(calls[i], "CancelSpotInstanceRequests", k) = {}
               /\ Positions(calls[i], "CreateTags", k) = {}]_vars

\* the first request timed out and was fulfilled afterwards, untagged; the
\* second was seen fulfilled and tagged
C26_Witness ==
  \E i \in Invs :
    /\ Len(spotResults[i]) = 2
    /\ spotResults[i][1] = "timeout"
    /\ spotResults[i][2] = "fulfilled"
    /\ <<i, 1, "spot">> \in DOMAIN instances
    /\ ~instances[<<i, 1, "spot">>].project
    /\ instances[<<i, 2, "spot">>].project

(***************************************************************************)
(* C27: a poll that finds no output artifact and sees the job's instance   *)
(* running or pending, the record writes accepted, leaves the status       *)
(* processing with the elapsed minutes and returns isComplete = false and  *)
(* isFailed = false, with or without an error marker.                      *)
(***************************************************************************)
\* the record was read, names the instance's region, and the instance lookup
\* of the poll answered with a running or pending instance
InstanceSeenLive ==
  /\ polled.instanceId \in DOMAIN instances
  /\ instances[polled.instanceId].state \in LiveStates
  /\ jobRecord.instanceInfo.region = instances[polled.instanceId].region
  /\ polled.failing \cap {"GetCommand", "DescribeInstances"} = {}

C27_LiveMeansProcessing ==
  (WritesAccepted /\ NoOutputArtifact /\ InstanceSeenLive) =>
    /\ monitor.kind = "returned"
    /\ ~monitor.result.isComplete
    /\ ~monitor.result.isFailed
    /\ monitor.wrote = <<"processing">>
    /\ jobRecord.status = "processing"
    /\ jobRecord.elapsedMinutes = now - jobRecord.timestamp

(***************************************************************************)
(* C28: in the handler with the elapsed-time rule, a poll that finds no    *)
(* live instance, no error marker and no outputs, the record read and      *)
(* written, returns isFailed = true and leaves the status failed when more *)
(* than 5 minutes have elapsed, and returns isComplete = false, isFailed = *)
(* false and writes nothing when 5 minutes or less have elapsed.           *)
(***************************************************************************)
\* the record was read and the record store took the writes of the poll
TimedRecordServed ==
  /\ monitor.kind # "none"
  /\ polled.failing \cap {"GetCommand", "UpdateCommand", "SecondUpdateCommand",
                           "CatchUpdateCommand"} = {}

C28_ThresholdDecides ==
  (TimedRecordServed /\ NoLiveInstance /\ NoOutputArtifact /\ ErrorKey \notin s3Keys) =>
    /\ monitor.kind = "returned"
    /\ ~monitor.result.isComplete
    /\ IF now - jobRecord.timestamp > FailureThresholdMinutes
         THEN /\ monitor.result.isFailed
              /\ monitor.wrote = <<"failed">>
              /\ jobRecord.status = "failed"
         ELSE /\ ~monitor.result.isFailed
              /\ monitor.wrote = <<>>
              /\ jobRecord.status \in {"validating", "processing"}

(***************************************************************************)
(* C29: a poll of waitForSpotInstance, made before the maximum wait, that  *)
(* finds the request cancelled, failed or closed ends the wait at once,    *)
(* with no further round of sleep and poll; the attempt fails as not       *)
(* fulfilled, its cancellation is sent, and the next acquisition call is   *)
(* the spot request of the next candidate (the first on-demand call after  *)
(* the last candidate).                                                    *)
(***************************************************************************)
\* the invocation takes a step of its wait
Polls(i) == pc[i] = "wait" /\ (pc'[i] # "wait" \/ polls'[i] # polls[i])

C29_TerminalEndsWait ==
  /\ [][\A i \in Invs :
          (/\ Polls(i)
           /\ polls[i] < MaxPolls
           /\ spotRequests[spotInstanceRequestId[i]].State \in {"cancelled", "failed", "closed"}) =>
            /\ pc'[i] = "spotCatch"
            /\ polls'[i] = polls[i]
            /\ outcome'[i].info = NoInfo
            /\ \/ /\ spotResults'[i] = Append(spotResults[i], "terminal")
                  /\ lastError'[i] = NotFulfilled(attemptIdx[i])
               \* the poll itself failed
               \/ /\ spotResults'[i] = Append(spotResults[i], "error")
                  /\ lastError'[i] = ApiError("DescribeSpotInstanceRequests", attemptIdx[i])]_vars
  /\ [](\A i \in Invs : \A k \in 1..Len(spotResults[i]) :
          spotResults[i][k] = "terminal" =>
            LET log == calls[i]
                p == CHOOSE q \in Positions(log, "RequestSpotInstances", k) : TRUE
                last == k = Len(spotAttempts[i])
            IN /\ Positions(log, "RequestSpotInstances", k) # {}
               /\ Positions(log, "CreateTags", k) = {}
               /\ Len(log) = p => (pc[i] = "spotCatch" /\ attemptIdx[i] = k)
               /\ Len(log) > p => log[p + 1] = [op |-> "CancelSpotInstanceRequests", cand |-> k]
               /\ Len(log) = p + 1 =>
                    /\ pc[i] = IF last THEN "onDemand" ELSE "spotRequest"
                    /\ attemptIdx[i] = IF last THEN 1 ELSE k + 1
               /\ Len(log) > p + 1 =>
                    log[p + 2] = IF last THEN [op |-> "RunInstances", cand |-> 1]
                                 ELSE [op |-> "RequestSpotInstances", cand |-> k + 1])

\* the first request was found in a terminal state, and the second
\* candidate's spot request is being waited for
C29_Witness ==
  \E i \in Invs :
    /\ Len(spotResults[i]) = 1
    /\ spotResults[i][1] = "terminal"
    /\ pc[i] = "wait"
    /\ attemptIdx[i] = 2
    /\ Len(calls[i]) = 3

(***************************************************************************)
(* C30: an invocation, once started, ends by returning or throwing, and    *)
(* sends nothing after it ended; it sends at most one spot request and at  *)
(* most one on-demand request per candidate, for candidates of its list    *)
(* only, and no wait for a spot request goes beyond the maximum number of  *)
(* polling rounds, also when EC2 never answers the request.                *)
(***************************************************************************)
C30_LaunchTerminates ==
  /\ [](\A i \in Invs :
          /\ polls[i] <= MaxPolls
          /\ \A op \in AcquisitionOps :
               /\ Len(CandsOf(calls[i], op)) <= Len(spotAttempts[i])
               /\ \A k \in 1..Len(calls[i]) : Cardinality(Positions(calls[i], op, k)) <= 1
          /\ \A p \in 1..Len(calls[i]) : calls[i][p].cand \in 1..Len(spotAttempts[i])
          /\ pc[i] = "done" => outcome[i].kind \in {"returned", "threw"})
  /\ [][\A i \in Invs : pc[i] = "done" => (pc'[i] = "done" /\ calls'[i] = calls[i])]_vars
  /\ <>(pc["A"] = "done")

\* the request of the only candidate stayed open for the whole wait, and the
\* invocation ended
C30_Witness ==
  /\ pc["A"] = "done"
  /\ event["A"].action = "launch"
  /\ spotResults["A"] = <<"timeout">>
  /\ polls["A"] = MaxPolls
  /\ Len(CandsOf(calls["A"], "RunInstances")) = 1

(***************************************************************************)
(* C31: in the handler with the elapsed-time rule, a poll made while both  *)
(* output artifacts are present never reports the job failed, whatever the *)
(* input file, the instance, the error marker and the elapsed time are:    *)
(* the result has isFailed = false and the status left is not failed.      *)
(***************************************************************************)
C31_OutputsNeverFailed ==
  (monitor.kind # "none" /\ {JsonFileKey, TxtFileKey} \subseteq s3Keys) =>
    /\ monitor.kind = "returned"
    /\ ~monitor.result.isFailed
    /\ jobRecord.status # "failed"

(***************************************************************************)
(* C32: in launchInstance of src/instanceManager.js, every RunInstances    *)
(* call comes after a RequestSpotInstances call for each (region, subnet)  *)
(* candidate of the invocation, and the request of a candidate that was    *)
(* found unfulfilled when it was checked has been cancelled before the     *)
(* spot request of the next candidate is sent.                             *)
(***************************************************************************)
C32_SpotPhaseFirst ==
  LET log == calls["A"]
  IN /\ \A p \in 1..Len(log) :
          log[p].op = "RunInstances" =>
            \A k \in 1..Len(spotAttempts["A"]) :
              \E q \in Positions(log, "RequestSpotInstances", k) : q < p
     /\ \A k \in 1..Len(spotResults["A"]) :
          spotResults["A"][k] = "unfulfilled" =>
            \A q \in Positions(log, "RequestSpotInstances", k + 1) :
              \E c \in Positions(log, "CancelSpotInstanceRequests", k) : c < q

(***************************************************************************)
(* C33: no result of the status monitor, in either variant, has both       *)
(* isComplete = true and isFailed = true, whatever the signals are and      *)
(* whichever calls fail.                                                   *)
(***************************************************************************)
C33_NeverBothFlags ==
  monitor.kind = "returned" => ~(monitor.result.isComplete /\ monitor.result.isFailed)

\* the outputs were found and the write of completed failed: the result comes
\* from the catch block
C33_Witness ==
  /\ monitor.kind = "returned"
  /\ monitor.outputCheck.found
  /\ "UpdateCommand" \in polled.failing
  /\ monitor.result.isFailed
  /\ monitor.wrote = <<"monitoring_error">>

(***************************************************************************)
(* C34: the flags a result of the status monitor carries agree with the    *)
(* status the invocation wrote: isComplete = true exactly when it wrote    *)
(* completed, and isFailed = true exactly when it wrote failed.            *)
(***************************************************************************)
C34_FlagsMatchWrites ==
  monitor.kind = "returned" =>
    /\ monitor.result.isComplete <=> monitor.wrote = <<"completed">>
    /\ monitor.result.isFailed <=> monitor.wrote = <<"failed">>

(***************************************************************************)
(* C35: when a launch invocation has ended by throwing, no instance that   *)
(* its own requests created is running or pending: a failure of the tagging *)
(* of a fulfilled spot instance or of the write of the job record does not  *)
(* end the invocation with an error while the instance stays acquired.     *)
(***************************************************************************)
C35_NothingLeftOnThrow ==
  \A i \in Invs :
    (pc[i] = "done" /\ event[i].action = "launch" /\ outcome[i].kind = "threw") =>
      \A id \in CreatedBy(i) : instances[id].state \notin LiveStates

(***************************************************************************)
(* C36: once an invocation of the status monitor has returned isComplete = *)
(* true, the next invocation that finds both output artifacts, its record  *)
(* writes accepted, returns isComplete = true as well and leaves the       *)
(* status completed, whatever became of the instance, the error marker and *)
(* the input file in between.                                              *)
(***************************************************************************)
C36_CompletedStays ==
  [][(/\ monitor.kind = "returned"
      /\ monitor.result.isComplete
      /\ (monitor' # monitor \/ jobRecord' # jobRecord)
      /\ monitor'.outputCheck.found
      /\ ~monitor'.writeFailed) =>
       /\ monitor'.kind = "returned"
       /\ monitor'.result.isComplete
       /\ jobRecord'.status = "completed"]_vars

(***************************************************************************)
(* C37: when both output artifacts are present from some time on, and the  *)
(* poller invokes the status monitor until a result carries isComplete or  *)
(* isFailed, the status of the job record eventually is completed and the  *)
(* poller has stopped on a result with isComplete = true.                  *)
(***************************************************************************)
C37_EventuallyCompleted ==
  <>[]({JsonFileKey, TxtFileKey} \subseteq s3Keys) =>
    <>(/\ jobRecord.status = "completed"
       /\ PollerStopped
       /\ monitor.result.isComplete)

(***************************************************************************)
(* C38: a launch invocation whose probe found nothing and whose planning   *)
(* left the candidate list empty sends no spot request and no on-demand    *)
(* request and creates no instance, ends by throwing, and, when the job    *)
(* has an id and the record store accepts the write, throws the failure of *)
(* the launch and leaves the job record with status error and that         *)
(* failure's message.                                                      *)
(***************************************************************************)
C38_EmptyListFails ==
  \A i \in Invs :
    (LaunchInstanceEnded(i) /\ spotAttempts[i] = <<>>) =>
      /\ calls[i] = <<>>
      /\ CreatedBy(i) = {}
      /\ pc[i] \in {"catch", "done"}
      /\ pc[i] = "done" => outcome[i].kind = "threw"
      /\ (pc[i] = "done" /\ event[i].id # NoId
            /\ outcome[i].error.message # "UpdateCommand") =>
           /\ outcome[i].error = LaunchFailed
           /\ wrote[i] = <<"error">>
           /\ jobRecord.status = "error"
           /\ jobRecord.instanceInfo.error = LaunchFailed.message
           /\ jobRecord.instanceInfo.instanceId = NoInstance

\* a region has its image and its subnets, yet no region passed the filters
\* (a lookup of the planning gave nothing), and the error status was written
C38_Witness ==
  /\ LaunchInstanceEnded("A")
  /\ spotAttempts["A"] = <<>>
  /\ \E r \in RegionIdx : Len(catalog[r].subnets) > 0
  /\ pc["A"] = "done"
  /\ outcome["A"].kind = "threw"
  /\ jobRecord.status = "error"

(***************************************************************************)
(* C39: no write of the instance manager or of the status monitor changes  *)
(* the timestamp of the job record, the start of the job from which the    *)
(* monitor computes the elapsed minutes.                                   *)
(***************************************************************************)
C39_TimestampKept ==
  [][jobRecord'.timestamp = jobRecord.timestamp]_vars

====
